---- MODULE Spec2Model ----
(***************************************************************************)
(* relay-pty: the injection queue (queue.rs), the injector (inject.rs)     *)
(* and the control-socket connection (socket.rs) as one state machine.     *)
(*                                                                         *)
(* Steps.  Every task is cut at the points where it can be suspended with  *)
(* shared state released: a connection between the release of the          *)
(* seen_ids lock and the take of the queue lock inside enqueue, and        *)
(* between two rounds of its select loop; the injector between             *)
(* wait_and_dequeue, the end of the idle wait, the two sends and the       *)
(* final report.                                                           *)
(*                                                                         *)
(* Time.  The code compares instants only in three ways, and the model     *)
(* keeps exactly what each comparison needs:                               *)
(*   - queued_at values are only ordered against each other (Ord for       *)
(*     PriorityMessage), so they are kept as ranks 1..n of the live        *)
(*     messages, renumbered whenever a new instant is taken;               *)
(*   - seen_ids timestamps and last_cleanup are only compared with "now"   *)
(*     against a duration, so they are kept as ages that Tick advances     *)
(*     and that saturate at the duration they are compared with;           *)
(*   - last_output_ms likewise, as the age silence_ms that Quiet advances  *)
(*     and that saturates at idle_timeout_ms.                              *)
(* Wall-clock timestamps carried inside responses are not modelled.        *)
(***************************************************************************)
EXTENDS Integers, Sequences, FiniteSets, TLC

\* ---------------------------------------------------------------- bounds
MaxIds == 2
MaxPriority == 0
MaxConns == 2
MaxInjects == 3
RxCap == 3
MaxHist == 4
max_size == 2
max_retries == 1
seen_id_ttl == 1
cleanup_interval == 0
idle_timeout_ms == 1
MaxChunks == 3
MaxChunkLen == 2
ChanCap == 2
ShutdownCap == 1
MaxRetryCount == 3
MaxClock == 3
MaxTimeout == 2
MaxParserText == 6
MaxMainText == 4
MaxPieces == 3
MaxOutputLen == 5
RecentLimit == 4
MaxReads == 3
McpLimit == 3
McpKeep == 2
EditorLimit == 3
EditorKeep == 2
EditorLook == 2
AutoEnterTimeout == 1
MAX_AUTO_ENTER_RETRIES == 5
NEW_INJECTION_WINDOW_MS == 2500
RecentInjectionMs == 60000
MeaningfulLen == 1
MaxCalls == 4
TruncateSize == 2

Ids == 1..MaxIds
\* one more id, whose text has a two-byte character across byte 8
WideId == MaxIds + 1
AllIds == Ids \cup {WideId}
Priorities == (0 - 1)..MaxPriority
Conns == 1..MaxConns
\* the inputs of the runs that follow one id, or one submitting connection
OneId == {1}
OneConn == {1}

NotSeen == 0 - 1

\* QueuedMessage (from and body play no part in queueing and are left out)
NoMsg == [id |-> 0, priority |-> 0, retries |-> 0, queued_at |-> 0]

\* InjectResponse::InjectResult / InjectResponse::Backpressure
\* error is Some(..) on Failed only: run passes the send error's text
InjectResult(id, status) ==
    [type |-> "inject_result", id |-> id, status |-> status,
     error |-> IF status = "Failed" THEN "PTY channel closed" ELSE "None",
     queue_length |-> 0, accept |-> FALSE]
Backpressure(len, accept) ==
    [type |-> "backpressure", id |-> 0, status |-> "none", error |-> "None",
     queue_length |-> len, accept |-> accept]

\* run's report of a failed verification
VerificationFailed(id) ==
    [InjectResult(id, "Failed") EXCEPT
        !.error = "Verification failed after retries"]

\* ---------------------------------------------------------------- strings
\* a String is the sequence of its characters; a character takes one byte,
\* except the members of TwoByte (a character such as U+00E9), which take two
TwoByte == {"e2"}

\* String::len: the length in bytes
RECURSIVE ByteLen(_)
ByteLen(s) ==
    IF s = <<>> THEN 0
    ELSE (IF Head(s) \in TwoByte THEN 2 ELSE 1) + ByteLen(Tail(s))

Min(a, b) == IF a < b THEN a ELSE b

is_char_boundary(s, n) == \E k \in 0..Len(s) : ByteLen(SubSeq(s, 1, k)) = n

\* &s[..n]: the characters before byte n, and a panic when byte n lies
\* inside a character
SliceTo(s, n) ==
    IF is_char_boundary(s, n)
    THEN [panic |-> FALSE,
          str |-> SubSeq(s, 1, CHOOSE k \in 0..Len(s) :
                                  ByteLen(SubSeq(s, 1, k)) = n)]
    ELSE [panic |-> TRUE, str |-> <<>>]

\* the text of a message id: nine one-byte characters for the ids of Ids;
\* for WideId seven one-byte characters, a two-byte one, and one more
IdText(id) ==
    IF id = WideId
    THEN <<"m", "s", "g", "-", "0", "0", "0", "e2", "x">>
    ELSE <<"m", "s", "g", "-", "0", "0", "0", "0", ToString(id)>>

\* the ids for which report_result's short_id = &id[..id.len().min(8)]
\* panics
ReportPanics ==
    {id \in AllIds : SliceTo(IdText(id), Min(ByteLen(IdText(id)), 8)).panic}

\* handle_request's message for a rejected Inject
RejectedMessage(id) ==
    <<"Message", IdText(id), "rejected", "(", "duplicate", "or",
      "backpressure", ")">>

\* --------------------------------------- QueuedMessage::format_for_injection
\* from and body are kept piece by piece, the id character by character
RelayPrefix == <<"Relay", " ", "message", " ", "from", " ">>

starts_with(s, prefix) ==
    Len(s) >= Len(prefix) /\ SubSeq(s, 1, Len(prefix)) = prefix

\* the match on self.retries
Escalate(retries, s) ==
    IF retries = 0 THEN s
    ELSE IF retries = 1 THEN <<"[RETRY] ">> \o s
    ELSE <<"[URGENT - PLEASE ACKNOWLEDGE] ">> \o s

\* short_id = &self.id[..self.id.len().min(7)]
FormatShortId(id) == SliceTo(id, Min(ByteLen(id), 7))

format_for_injection(id, from, body, retries) ==
    IF starts_with(body, RelayPrefix)
    THEN [panic |-> FALSE, str |-> Escalate(retries, body)]
    ELSE IF FormatShortId(id).panic
    THEN [panic |-> TRUE, str |-> <<>>]
    ELSE [panic |-> FALSE,
          str |-> Escalate(retries,
                     RelayPrefix \o from \o <<" ", "[">> \o
                     FormatShortId(id).str \o <<"]", ":", " ">> \o body)]

\* the ids tried: shorter than 7 characters, exactly 7, longer, one with a
\* two-byte character before byte 7 and one with a two-byte character
\* across byte 7; the bodies tried: plain, empty, pre-formatted, and two
\* that nearly are
FormatArgs ==
    LET FormatIds ==
            {<<"a", "b", "c">>,
             <<"m", "s", "g", "-", "0", "0", "1">>,
             <<"m", "s", "g", "-", "0", "0", "0", "0", "1">>,
             <<"e2", "s", "g", "-", "0", "0", "0", "1">>,
             <<"m", "s", "g", "-", "0", "0", "e2", "1">>}
        FormatBodies ==
            {<<"hello">>,
             <<>>,
             RelayPrefix \o <<"Bob", " ", "[", "abc1234", "]", ":", " ", "hello">>,
             <<"Relay", " ", "message", " ", "from">>,
             <<"relay", " ", "message", " ", "from", " ", "Bob">>}
    IN  [fn : {"format_for_injection"}, id : FormatIds,
         from : {<<"Alice">>, <<>>}, body : FormatBodies,
         retries : 0..MaxRetryCount]

\* u64::saturating_sub
saturating_sub(a, b) == IF a >= b THEN a - b ELSE 0

IdleArgs ==
    [fn : {"check_idle"}, auto_suggestion_visible : BOOLEAN, is_idle : BOOLEAN,
     last_output_ms : 0..MaxClock, now : 0..MaxClock,
     idle_timeout_ms : 0..MaxTimeout]

\* ------------------------------------------------------------- strip_ansi
\* a text is the sequence of its characters: ESC (0x1B), BEL (0x07), NL
\* (line feed), SP (space), BSL (backslash), GRAVE (backtick) and the other
\* printable characters written as they are
Digits == {"0"}
Letters == {"m"}

\* texts of at most n characters over the characters of chars
Texts(chars, n) == UNION {[1..k -> chars] : k \in 0..n}

Drop(s, n) == IF n >= Len(s) THEN <<>> ELSE SubSeq(s, n + 1, Len(s))

\* [0-9;]* from the head of s: how many characters it takes
RECURSIVE CsiParams(_)
CsiParams(s) ==
    IF s # <<>> /\ Head(s) \in Digits \cup {";"}
    THEN 1 + CsiParams(Tail(s)) ELSE 0

\* .*? before the first BEL of s: how many characters it takes, and -1 when
\* a line feed (which . does not match) or the end comes first
RECURSIVE OscLazy(_)
OscLazy(s) ==
    IF s = <<>> \/ Head(s) = "NL" THEN 0 - 1
    ELSE IF Head(s) = "BEL" THEN 0
    ELSE IF OscLazy(Tail(s)) < 0 THEN 0 - 1
    ELSE 1 + OscLazy(Tail(s))

\* ansi_pattern, \x1B\[[0-9;]*[A-Za-z]|\x1B\].*?\x07, at the head of s: the
\* length of the match, 0 when there is none
AnsiMatchLen(s) ==
    IF Len(s) < 2 \/ s[1] # "ESC" THEN 0
    ELSE IF s[2] = "["
    THEN LET k == CsiParams(Drop(s, 2))
         IN  IF Len(s) >= k + 3 /\ s[k + 3] \in Letters THEN k + 3 ELSE 0
    ELSE IF s[2] = "]"
    THEN LET k == OscLazy(Drop(s, 2))
         IN  IF k >= 0 THEN k + 3 ELSE 0
    ELSE 0

\* parser.rs strip_ansi: replace_all(text, ""), the matches taken from left
\* to right, none overlapping another
RECURSIVE ParserStripAnsi(_)
ParserStripAnsi(s) ==
    IF s = <<>> THEN <<>>
    ELSE IF AnsiMatchLen(s) > 0
    THEN ParserStripAnsi(Drop(s, AnsiMatchLen(s)))
    ELSE <<Head(s)>> \o ParserStripAnsi(Tail(s))

\* main.rs strip_ansi, the CSI branch: skip up to and with the final byte
RECURSIVE AfterCsi(_)
AfterCsi(s) ==
    IF s = <<>> THEN <<>>
    ELSE IF Head(s) \in Letters \cup {"@", "GRAVE"} THEN Tail(s)
    ELSE AfterCsi(Tail(s))

\* the OSC branch: skip up to and with BEL or ESC \
RECURSIVE AfterOsc(_)
AfterOsc(s) ==
    IF s = <<>> THEN <<>>
    ELSE IF Head(s) = "BEL" THEN Tail(s)
    ELSE IF Head(s) = "ESC" /\ Len(s) >= 2 /\ s[2] = "BSL" THEN Drop(s, 2)
    ELSE AfterOsc(Tail(s))


\* main.rs strip_ansi
RECURSIVE MainStripAnsi(_)
MainStripAnsi(s) ==
    IF s = <<>> THEN <<>>
    ELSE IF Head(s) # "ESC" THEN <<Head(s)>> \o MainStripAnsi(Tail(s))
    ELSE IF Len(s) = 1 THEN <<>>
    ELSE IF s[2] = "[" THEN MainStripAnsi(AfterCsi(Drop(s, 2)))
    ELSE IF s[2] = "]" THEN MainStripAnsi(AfterOsc(Drop(s, 2)))
    ELSE IF s[2] \in {"(", ")", "*", "+"} THEN MainStripAnsi(Drop(s, 3))
    ELSE IF s[2] \in Digits \cup Letters
                       \cup {";", "@", "[", "BSL", "]", "GRAVE"}
         THEN MainStripAnsi(Drop(s, 2))
    ELSE MainStripAnsi(Tail(s))

strip_ansi(fn, s) ==
    IF fn = "parser::strip_ansi" THEN ParserStripAnsi(s) ELSE MainStripAnsi(s)

StripArgs ==
    LET ParserChars == {"ESC", "[", "]", "0", "m", "BEL"}
        MainChars == {"ESC", "[", "]", "(", "BSL", "0", "m", "BEL", "SP"}
    IN  [fn : {"parser::strip_ansi"}, text : Texts(ParserChars, MaxParserText)]
        \cup [fn : {"main::strip_ansi"}, text : Texts(MainChars, MaxMainText)]

\* ------------------------------------- Injector::record_output and friends
\* output text is kept piece by piece: the relay prefix, the send hint
\* "SEND", the reverse-video sequence "REV", the reverse-off-and-dim pair
\* "GHOST", the line feed "NL", the space, and other characters
is_auto_suggestion(output) ==
    LET Has(piece) == \E k \in 1..Len(output) : output[k] = piece
        has_cursor_ghost == Has("REV") /\ Has("GHOST")
        has_send_hint == Has("SEND")
    IN  has_cursor_ghost \/ has_send_hint

\* str::lines: the pieces between line feeds (an empty last line is not one,
\* which makes no difference to a test on all lines)
is_relay_echo(output) ==
    LET RECURSIVE FirstLine(_)
        FirstLine(s) ==
            IF s = <<>> \/ Head(s) = "NL" THEN <<>>
            ELSE <<Head(s)>> \o FirstLine(Tail(s))
        RECURSIVE lines(_)
        lines(s) ==
            IF s = <<>> THEN {}
            ELSE {FirstLine(s)} \cup lines(Drop(s, Len(FirstLine(s)) + 1))
        RECURSIVE trim_start(_)
        trim_start(s) ==
            IF s # <<>> /\ Head(s) = " " THEN trim_start(Tail(s)) ELSE s
        RECURSIVE trim_end(_)
        trim_end(s) ==
            IF s # <<>> /\ s[Len(s)] = " "
            THEN trim_end(SubSeq(s, 1, Len(s) - 1))
            ELSE s
    IN  \A line \in lines(output) :
            LET trimmed == trim_end(trim_start(line))
            IN  trimmed = <<>> \/ starts_with(trimmed, RelayPrefix)

\* &s[n..]: the characters from byte n on, and a panic when byte n lies
\* inside a character
SliceFrom(s, n) ==
    IF is_char_boundary(s, n)
    THEN [panic |-> FALSE,
          str |-> Drop(s, CHOOSE k \in 0..Len(s) :
                              ByteLen(SubSeq(s, 1, k)) = n)]
    ELSE [panic |-> TRUE, str |-> <<>>]

\* a buffer cut at the byte where the limit falls
RecentAfterBytes(recent, output) ==
    LET pushed == recent \o output
    IN  IF ByteLen(pushed) > RecentLimit
        THEN SliceFrom(pushed, ByteLen(pushed) - RecentLimit)
        ELSE [panic |-> FALSE, str |-> pushed]

\* record_output's buffer: push_str, then cut the front, at the first
\* character that starts at or after the target byte (char_indices gives the
\* byte offset at which each character starts), when the buffer is longer
\* than RecentLimit bytes
RecentAfter(recent, output) ==
    LET pushed == recent \o output
        target_start == ByteLen(pushed) - RecentLimit
        char_indices ==
            {ByteLen(SubSeq(pushed, 1, k - 1)) : k \in 1..Len(pushed)}
        later == {i \in char_indices : i >= target_start}
        start == IF later = {} THEN ByteLen(pushed)
                 ELSE CHOOSE i \in later : \A j \in later : i <= j
    IN  IF ByteLen(pushed) > RecentLimit THEN SliceFrom(pushed, start)
        ELSE [panic |-> FALSE, str |-> pushed]

\* a record_output for which every output is activity
record_outputBusy(self, output, now) ==
    IF is_auto_suggestion(output)
    THEN [self EXCEPT !.auto_suggestion_visible = TRUE]
    ELSE [auto_suggestion_visible |-> FALSE,
          last_output_ms |-> now,
          is_idle |-> FALSE,
          recent_output |-> RecentAfter(self.recent_output, output).str,
          panic |-> RecentAfter(self.recent_output, output).panic]

\* record_output(output) on an injector whose fields are self, at time now
record_output(self, output, now) ==
    IF is_auto_suggestion(output)
    THEN [self EXCEPT !.auto_suggestion_visible = TRUE]
    ELSE [auto_suggestion_visible |-> FALSE,
          last_output_ms |-> now,
          is_idle |-> IF is_relay_echo(output) THEN self.is_idle ELSE FALSE,
          recent_output |-> RecentAfter(self.recent_output, output).str,
          panic |-> RecentAfter(self.recent_output, output).panic]

\* update_from_parse(result)
update_from_parse(is_idle_now, result) ==
    IF result.is_idle \/ result.ready_signal THEN TRUE ELSE is_idle_now

\* the calls of record_output and update_from_parse: outputs of up to
\* MaxPieces pieces in any order, and texts of one- and two-byte characters
\* that fill the buffer
RecordArgs ==
    LET RECURSIVE Concat(_)
        Concat(pieces) ==
            IF pieces = <<>> THEN <<>>
            ELSE Head(pieces) \o Concat(Tail(pieces))
        OutputPieces ==
            {RelayPrefix, <<"x">>, <<" ">>, <<"NL">>, <<"SEND">>, <<"REV">>,
             <<"GHOST">>}
        ByteChars == {"a", "e2"}
    IN
    [fn : {"record_output"},
     self : [auto_suggestion_visible : BOOLEAN, is_idle : BOOLEAN,
             last_output_ms : 0..1, recent_output : {<<>>}, panic : {FALSE}],
     output : {Concat(p) : p \in Texts(OutputPieces, MaxPieces)},
     now : 1..2]
    \cup [fn : {"record_output"},
          self : [auto_suggestion_visible : {FALSE}, is_idle : {FALSE},
                  last_output_ms : {0},
                  recent_output : {s \in Texts(ByteChars, RecentLimit) :
                                      ByteLen(s) <= RecentLimit},
                  panic : {FALSE}],
          output : Texts(ByteChars, MaxOutputLen), now : {1}]
    \cup [fn : {"update_from_parse"}, is_idle : BOOLEAN,
          result : [is_idle : BOOLEAN, ready_signal : BOOLEAN]]

\* a chunk of bytes for the PTY: its number in the order of production, its
\* producer and its length (the bytes themselves play no part)
NoChunk == [n |-> 0, src |-> "none", len |-> 0]
NoCall == [fn |-> "none"]

\* the lines a connection writes; an Error's message is kept word by word
StatusLine(c, id, status) ==
    [conn |-> c, type |-> "inject_result", id |-> id, status |-> status,
     message |-> <<>>]
ErrorLine(c, message) ==
    [conn |-> c, type |-> "error", id |-> 0, status |-> "none",
     message |-> message]
\* a request line as read_line returns it, by what becomes of it
ReadLine(c, kind) == <<[conn |-> c, kind |-> kind, id |-> 0]>>

ReadInject(c, id) == <<[conn |-> c, kind |-> "inject", id |-> id]>>

ShutdownAck(c) ==
    [conn |-> c, type |-> "shutdown_ack", id |-> 0, status |-> "none",
     message |-> <<>>]

VARIABLES
    \* MessageQueue
    heap,            \* queue: the set of queued messages (queued_at is unique)
    seen_ids,        \* seen_ids: id -> age of its entry, NotSeen when absent
    last_cleanup,    \* age of last_cleanup
    notify,          \* Notify: TRUE when a permit is stored
    rx,              \* per connection: its broadcast receiver's unread events
    lagged,          \* per connection: the receiver has been overrun
    \* Injector
    inj_pc,
    inj_msg,         \* the message run holds between dequeue and final report
    is_idle, auto_suggestion_visible, silence_ms,
    pty_open,        \* the receiving half of pty_tx still exists
    \* handle_connection
    conn_pc,
    conn_msg,        \* the message a connection holds inside enqueue
    pending_ids,
    injects,         \* Inject lines read so far, where a run counts them
    \* observers (not program state)
    bcast,           \* the events this step broadcast (empty when none)
    hist,            \* per id: statuses broadcast since the id was last
                     \* accepted with no message of that id unfinished
                     \* (the first MaxHist of them)
    out,             \* per connection and id: status lines written since the
                     \* connection last answered an Inject for the id with
                     \* Queued, and "Lagged" where the receiver reported a
                     \* gap while the id was tracked
    sent,            \* the chunks sent to pty_tx for the message in hand
    wrote,           \* the lines this step wrote to a connection
    read,            \* the request line this step read from a connection
    rejected,        \* an enqueue has been turned away for capacity
    \* supervisor
    shutdown_rx,     \* signals waiting in the shutdown channel (capacity 1)
    sup_pc,          \* "loop" while the select loop runs, then "cleanup"
    sup_hold,        \* the chunk the loop holds inside async_pty.send
    \* the channels to the PTY and the writer thread
    stdin_rx,        \* chunks the stdin thread sent, not yet taken
    inject_rx,       \* chunks sent to pty_tx, not yet taken
    input_rx,        \* chunks sent to the writer thread, not yet taken
    running,         \* the flag the reader thread clears when the child ends
    writer_pc,       \* "recv", "write" or "exited"
    writer,          \* the chunk being written and the bytes written of it
    master,          \* the bytes written to the PTY master, in order
    chunks,          \* chunks produced so far
    arrival,         \* observer: the chunks in the order they entered input_rx
    failed,          \* observer: the chunks a write error cut short
    \* a call of a pure function
    arg, ret,
    \* the reader thread and the PTY output branch of main's loop
    output_rx,       \* chunks the reader thread sent, not yet taken
    reads,           \* chunks the reader thread has read and sent so far
    stdout,          \* observer: chunks copied to stdout and parsed so far
    \* main's locals: the MCP approval detector
    mcp_approved,
    mcp_detection_buffer,
    mcp_partial_match_since,   \* "None" or "Some"
    approvals,       \* observer: approval bytes handed to the PTY (up to 2)
    \* main's locals: the auto-Enter check
    auto_enter_timeout_ms,     \* 0 when auto-Enter is disabled
    auto_enter_retry_count,
    last_auto_enter_time,      \* "None" or "Some"
    last_tracked_injection_ms,
    editor_mode_buffer,
    enters,          \* observer: auto-Enter carriage returns handed to the
                     \* PTY since auto_enter_retry_count was last set to 0
    sent_at          \* observer: the clock readings of the last auto-Enter
                     \* tick, when it sent the carriage return

queue_vars == <<heap, seen_ids, last_cleanup, notify>>
chan_vars == <<rx, lagged, hist, bcast, rejected>>
flag_vars == <<is_idle, auto_suggestion_visible, silence_ms>>
inj_vars == <<inj_pc, inj_msg, sent>>
conn_vars == <<conn_pc, conn_msg, pending_ids, injects, out>>
sup_vars == <<shutdown_rx, sup_pc>>
writer_vars == <<sup_hold, stdin_rx, inject_rx, input_rx, running, writer_pc,
                 writer, master, chunks, arrival, failed>>
call_vars == <<arg, ret>>
loop_vars == <<output_rx, reads, stdout, mcp_approved, mcp_detection_buffer,
               mcp_partial_match_since, approvals, auto_enter_timeout_ms,
               auto_enter_retry_count, last_auto_enter_time,
               last_tracked_injection_ms, editor_mode_buffer, enters,
               sent_at>>
side_vars == <<sup_vars, writer_vars, call_vars, loop_vars>>
core_vars == <<queue_vars, chan_vars, flag_vars, inj_vars, pty_open, conn_vars,
               wrote, read>>
vars == <<core_vars, side_vars>>

\* a step of a task other than a connection: no line is read or written
NoLine == wrote' = <<>> /\ read' = <<>> /\ UNCHANGED side_vars

\* ------------------------------------------------------ broadcast channel
\* a connection that takes no status for final
IsFinalNever(status) == FALSE

IsFinal(status) == status \in {"Delivered", "Failed"}

\* a message with this id is queued or in the injector's hand
Live(id) ==
    \/ \E m \in heap : m.id = id
    \/ inj_msg # NoMsg /\ inj_msg.id = id

RECURSIVE HistAfter(_, _)
HistAfter(h, evs) ==
    IF evs = <<>> THEN h
    ELSE LET e == Head(evs)
             h1 == IF e.type # "inject_result" THEN h
                   ELSE IF e.status = "Queued" /\ ~Live(e.id)
                        THEN [h EXCEPT ![e.id] = <<"Queued">>]
                        ELSE IF Len(h[e.id]) < MaxHist
                        THEN [h EXCEPT ![e.id] = Append(@, e.status)]
                        ELSE h
         IN  HistAfter(h1, Tail(evs))

\* a connection subscribes when it is accepted
Subscribed(c) == conn_pc[c] # "closed"

\* response_tx.send(..) for each event of evs, in order; a receiver keeps
\* the newest RxCap unread events, older ones are lost
Send(evs) ==
    /\ rx' = [c \in Conns |->
                LET all == rx[c] \o evs
                IN  IF ~Subscribed(c) THEN rx[c]
                    ELSE IF Len(all) > RxCap
                    THEN SubSeq(all, Len(all) - RxCap + 1, Len(all))
                    ELSE all]
    /\ lagged' = [c \in Conns |->
                    lagged[c]
                    \/ (Subscribed(c) /\ Len(rx[c]) + Len(evs) > RxCap)]
    /\ bcast' = evs
    /\ hist' = HistAfter(hist, evs)
    /\ rejected' = (rejected \/ \E k \in 1..Len(evs) :
                                    evs[k].type = "backpressure" /\ ~evs[k].accept)

\* a step that broadcasts nothing
NoSend == bcast' = <<>> /\ UNCHANGED <<rx, lagged, hist, rejected>>

\* ----------------------------------------------------------- MessageQueue
\* a duplicate check that never finds the id
contains_keyNever(seen, id) == FALSE

contains_key(seen, id) == seen[id] # NotSeen

\* cleanup_expired_ids: retain the entries younger than the TTL
cleanup_expired_ids(seen) ==
    [i \in AllIds |-> IF seen[i] # NotSeen /\ seen[i] < seen_id_ttl
                   THEN seen[i] ELSE NotSeen]

CleanupDue(age) == age > cleanup_interval

\* a capacity check that is off by one
AtCapacityOver(q) == Cardinality(q) > max_size

AtCapacity(q) == Cardinality(q) >= max_size

\* Ord without the reversal: the max-heap pops the largest priority first
PoppedBeforeMax(m, n) ==
    \/ m.priority > n.priority
    \/ m.priority = n.priority /\ m.queued_at >= n.queued_at

\* Ord for PriorityMessage, reversed by the max-heap: m is popped before n
PoppedBefore(m, n) ==
    \/ m.priority < n.priority
    \/ m.priority = n.priority /\ m.queued_at <= n.queued_at

\* BinaryHeap::pop / peek
Peek(q) == CHOOSE m \in q : \A n \in q : PoppedBefore(m, n)

\* a mark_delivered that leaves the entry in the map
mark_deliveredKept(seen, id) == seen

mark_delivered(seen, id) == [seen EXCEPT ![id] = NotSeen]

\* Instant::now() for a new queued_at: the live instants are renumbered 1..n
\* and the new one is n + 1
LiveStamps ==
    {m.queued_at : m \in heap} \cup
    {conn_msg[c].queued_at : c \in {d \in Conns : conn_pc[d] = "enq_queue"}}
Renumber(m) ==
    IF m = NoMsg THEN m
    ELSE [m EXCEPT !.queued_at = Cardinality({u \in LiveStamps : u <= @})]
InstantNow == Cardinality(LiveStamps) + 1

QueuedMessage_new(id, priority) ==
    [id |-> id, priority |-> priority, retries |-> 0, queued_at |-> InstantNow]

\* an enqueue that checks for the duplicate and records nothing
EnqueueSeenUnrecorded(id, dup) ==
    LET swept == IF CleanupDue(last_cleanup)
                 THEN cleanup_expired_ids(seen_ids) ELSE seen_ids
    IN  /\ last_cleanup' = IF CleanupDue(last_cleanup) THEN 0 ELSE last_cleanup
        /\ dup = contains_key(swept, id)
        /\ seen_ids' = swept

\* enqueue up to the release of the seen_ids lock: the periodic sweep and the
\* duplicate check; dup is TRUE when enqueue returns false here
EnqueueSeen(id, dup) ==
    LET swept == IF CleanupDue(last_cleanup)
                 THEN cleanup_expired_ids(seen_ids) ELSE seen_ids
    IN  /\ last_cleanup' = IF CleanupDue(last_cleanup) THEN 0 ELSE last_cleanup
        /\ dup = contains_key(swept, id)
        /\ seen_ids' = IF dup THEN swept ELSE [swept EXCEPT ![id] = 0]

\* enqueue under the queue lock, q being the queue's contents: capacity
\* check, push, broadcasts; ok is the value enqueue returns
\* an enqueue that pushes without notify_one
EnqueueQueueSilent(q, msg, ok) ==
    IF AtCapacity(q)
    THEN /\ ok = FALSE
         /\ Send(<<Backpressure(Cardinality(q), FALSE)>>)
         /\ heap' = q
         /\ UNCHANGED notify
    ELSE /\ ok = TRUE
         /\ heap' = q \cup {msg}
         /\ UNCHANGED notify
         /\ Send(<<InjectResult(msg.id, "Queued")>> \o
                 (IF Cardinality(q) + 1 = max_size \div 2
                  THEN <<Backpressure(Cardinality(q) + 1, TRUE)>>
                  ELSE <<>>))

EnqueueQueue(q, msg, ok) ==
    IF AtCapacity(q)
    THEN /\ ok = FALSE
         /\ Send(<<Backpressure(Cardinality(q), FALSE)>>)
         /\ heap' = q
         /\ UNCHANGED notify
    ELSE /\ ok = TRUE
         /\ heap' = q \cup {msg}
         /\ notify' = TRUE
         /\ Send(<<InjectResult(msg.id, "Queued")>> \o
                 (IF Cardinality(q) + 1 = max_size \div 2
                  THEN <<Backpressure(Cardinality(q) + 1, TRUE)>>
                  ELSE <<>>))

\* ------------------------------------------------------ handle_connection
\* a connection that keeps tracking the id of an Inject it turned away
RespondTracked(c, id, ok) ==
    /\ conn_pc' = [conn_pc EXCEPT ![c] = "select"]
    /\ pending_ids' = [pending_ids EXCEPT ![c] = @ \cup {id}]
    /\ IF ok
       THEN /\ out' = [out EXCEPT ![c][id] = <<"Queued">>]
            /\ wrote' = <<StatusLine(c, id, "Queued")>>
       ELSE /\ wrote' = <<ErrorLine(c, RejectedMessage(id))>>
            /\ UNCHANGED out

\* the initial response: the Queued line on accept; on reject the Error line
\* and the id is un-tracked
Respond(c, id, ok) ==
    /\ conn_pc' = [conn_pc EXCEPT ![c] = "select"]
    /\ IF ok
       THEN /\ out' = [out EXCEPT ![c][id] = <<"Queued">>]
            /\ pending_ids' = [pending_ids EXCEPT ![c] = @ \cup {id}]
            /\ wrote' = <<StatusLine(c, id, "Queued")>>
       ELSE /\ pending_ids' = [pending_ids EXCEPT ![c] = @ \ {id}]
            /\ wrote' = <<ErrorLine(c, RejectedMessage(id))>>
            /\ UNCHANGED out

\* an Inject line is read: the id is pre-registered, the QueuedMessage built
\* and enqueue entered; a duplicate is answered at once.  count is the new
\* value of the request counter
ConnInject(c, id, priority, count) ==
    /\ conn_pc[c] = "select"
    /\ injects' = count
    /\ read' = ReadInject(c, id)
    /\ \E dup \in BOOLEAN :
          /\ EnqueueSeen(id, dup)
          /\ IF dup
             THEN /\ Respond(c, id, FALSE)
                  /\ UNCHANGED <<heap, conn_msg>>
             ELSE /\ conn_pc' = [conn_pc EXCEPT ![c] = "enq_queue"]
                  /\ pending_ids' = [pending_ids EXCEPT ![c] = @ \cup {id}]
                  /\ heap' = {Renumber(m) : m \in heap}
                  /\ conn_msg' = [d \in Conns |->
                                    IF d = c THEN QueuedMessage_new(id, priority)
                                    ELSE Renumber(conn_msg[d])]
                  /\ wrote' = <<>>
                  /\ UNCHANGED out
    /\ NoSend
    /\ UNCHANGED <<notify, flag_vars, inj_vars, pty_open, side_vars>>

\* enqueue goes on under the queue lock and the response is written
ConnEnqueue(c) ==
    /\ conn_pc[c] = "enq_queue"
    /\ read' = <<>>
    /\ \E ok \in BOOLEAN :
          /\ EnqueueQueue(heap, conn_msg[c], ok)
          /\ Respond(c, conn_msg[c].id, ok)
    /\ conn_msg' = [conn_msg EXCEPT ![c] = NoMsg]
    /\ UNCHANGED <<seen_ids, last_cleanup, flag_vars, inj_vars, pty_open,
                   injects, side_vars>>

\* a connection that forwards the broadcast Queued too
SkipQueuedNever(status) == FALSE

\* the broadcast Queued of a tracked id is dropped
SkipQueued(status) == status = "Queued"

\* a connection that forwards the events of every id
TrackedAny(c, e) == e.type = "inject_result"

Tracked(c, e) == e.type = "inject_result" /\ e.id \in pending_ids[c]

\* response_rx.recv() returned: Lagged, or the oldest unread event;
\* RecvError::Lagged is only logged, the observer notes it once for each id
\* the connection tracks
ConnRecv(c) ==
    /\ conn_pc[c] = "select"
    /\ IF lagged[c]
       THEN /\ lagged' = [lagged EXCEPT ![c] = FALSE]
            /\ out' = [out EXCEPT ![c] =
                          [i \in AllIds |->
                              IF /\ i \in pending_ids[c]
                                 /\ \A k \in DOMAIN out[c][i] :
                                       out[c][i][k] # "Lagged"
                              THEN Append(out[c][i], "Lagged")
                              ELSE out[c][i]]]
            /\ wrote' = <<>>
            /\ UNCHANGED <<rx, pending_ids, seen_ids>>
       ELSE /\ rx[c] # <<>>
            /\ rx' = [rx EXCEPT ![c] = Tail(@)]
            /\ UNCHANGED lagged
            /\ LET e == Head(rx[c])
               IN  IF Tracked(c, e) /\ ~SkipQueued(e.status)
                   THEN /\ out' = [out EXCEPT ![c][e.id] = Append(@, e.status)]
                        /\ wrote' = <<StatusLine(c, e.id, e.status)>>
                        /\ pending_ids' =
                              [pending_ids EXCEPT ![c] =
                                  IF IsFinal(e.status) THEN @ \ {e.id} ELSE @]
                        /\ seen_ids' = IF e.status = "Delivered"
                                       THEN mark_delivered(seen_ids, e.id)
                                       ELSE seen_ids
                   ELSE wrote' = <<>> /\ UNCHANGED <<pending_ids, out, seen_ids>>
    /\ bcast' = <<>>
    /\ read' = <<>>
    /\ UNCHANGED <<heap, last_cleanup, notify, hist, rejected, flag_vars,
                   inj_vars, pty_open, conn_pc, conn_msg, injects, side_vars>>

\* a line that is text and not a request: the Error line is written and the
\* loop goes on
ConnInvalidJson(c) ==
    /\ conn_pc[c] = "select"
    /\ read' = ReadLine(c, "invalid_json")
    /\ wrote' = <<ErrorLine(c, <<"Invalid", "JSON", ":", "serde_json::Error">>)>>
    /\ NoSend
    /\ UNCHANGED <<queue_vars, flag_vars, inj_vars, pty_open, conn_vars,
                   side_vars>>

\* a line of white space only: cleared, nothing written, the loop goes on
ConnBlank(c) ==
    /\ conn_pc[c] = "select"
    /\ read' = ReadLine(c, "blank")
    /\ wrote' = <<>>
    /\ NoSend
    /\ UNCHANGED <<queue_vars, flag_vars, inj_vars, pty_open, conn_vars,
                   side_vars>>

\* a line whose bytes are not UTF-8: read_line returns an error, which `?`
\* returns from handle_connection; the receiver and pending_ids are dropped
ConnInvalidUtf8(c) ==
    /\ conn_pc[c] = "select"
    /\ read' = ReadLine(c, "invalid_utf8")
    /\ wrote' = <<>>
    /\ conn_pc' = [conn_pc EXCEPT ![c] = "closed"]
    /\ pending_ids' = [pending_ids EXCEPT ![c] = {}]
    /\ NoSend
    /\ UNCHANGED <<queue_vars, flag_vars, inj_vars, pty_open, conn_msg,
                   injects, out, side_vars>>

\* a Shutdown line is read and handle_request enters shutdown_tx.send
ConnShutdown(c) ==
    /\ conn_pc[c] = "select"
    /\ read' = ReadLine(c, "shutdown")
    /\ wrote' = <<>>
    /\ conn_pc' = [conn_pc EXCEPT ![c] = "shutdown_send"]
    /\ NoSend
    /\ UNCHANGED <<queue_vars, flag_vars, inj_vars, pty_open, conn_msg,
                   pending_ids, injects, out, side_vars>>

\* shutdown_tx.send(()) completes once the channel has room
ConnShutdownSend(c) ==
    /\ conn_pc[c] = "shutdown_send"
    /\ shutdown_rx < ShutdownCap
    /\ shutdown_rx' = shutdown_rx + 1
    /\ read' = <<>>
    /\ wrote' = <<>>
    /\ conn_pc' = [conn_pc EXCEPT ![c] = "shutdown_ack"]
    /\ NoSend
    /\ UNCHANGED <<queue_vars, flag_vars, inj_vars, pty_open, conn_msg,
                   pending_ids, injects, out, sup_pc, writer_vars, call_vars, loop_vars>>

\* a connection that writes ShutdownAck and goes on with its loop
ConnShutdownAckOpen(c) ==
    /\ conn_pc[c] = "shutdown_ack"
    /\ read' = <<>>
    /\ wrote' = <<ShutdownAck(c)>>
    /\ conn_pc' = [conn_pc EXCEPT ![c] = "select"]
    /\ NoSend
    /\ UNCHANGED <<queue_vars, flag_vars, inj_vars, pty_open, conn_msg,
                   pending_ids, injects, out, side_vars>>

\* ShutdownAck is written and handle_connection returns
ConnShutdownAck(c) ==
    /\ conn_pc[c] = "shutdown_ack"
    /\ read' = <<>>
    /\ wrote' = <<ShutdownAck(c)>>
    /\ conn_pc' = [conn_pc EXCEPT ![c] = "closed"]
    /\ pending_ids' = [pending_ids EXCEPT ![c] = {}]
    /\ NoSend
    /\ UNCHANGED <<queue_vars, flag_vars, inj_vars, pty_open, conn_msg,
                   injects, out, side_vars>>

\* ------------------------------------------------------------- supervisor
\* the select loop takes the shutdown signal and breaks
SupShutdown ==
    /\ sup_pc = "loop"
    /\ sup_hold = NoChunk
    /\ shutdown_rx > 0
    /\ shutdown_rx' = shutdown_rx - 1
    /\ sup_pc' = "cleanup"
    /\ wrote' = <<>>
    /\ read' = <<>>
    /\ UNCHANGED <<queue_vars, chan_vars, flag_vars, inj_vars, pty_open,
                   conn_vars, writer_vars, call_vars, loop_vars>>

\* cleanup is done and main returns: the process, every task with it, ends
SupExit ==
    /\ sup_pc = "cleanup"
    /\ sup_pc' = "exited"
    /\ wrote' = <<>>
    /\ read' = <<>>
    /\ UNCHANGED <<queue_vars, chan_vars, flag_vars, inj_vars, pty_open,
                   conn_vars, shutdown_rx, writer_vars, call_vars, loop_vars>>

Alive == sup_pc # "exited"

\* ---------------------------------------------------------------- Injector
\* a check that takes no notice of a visible suggestion
check_idleUnsuppressed(suggestion, idle, silence, timeout) ==
    IF idle THEN TRUE ELSE silence >= timeout

check_idle(suggestion, idle, silence, timeout) ==
    IF suggestion THEN FALSE
    ELSE IF idle THEN TRUE
    ELSE silence >= timeout

CheckIdleNow ==
    check_idle(auto_suggestion_visible, is_idle, silence_ms, idle_timeout_ms)

\* run: wait_and_dequeue finds a message under the queue lock and Injecting
\* is reported, or the queue is empty and the task awaits the notification.
\* report_result slices the id at byte 8 before it broadcasts: where that
\* panics the task unwinds, the message it held is dropped and nothing is
\* broadcast
InjDequeue ==
    /\ inj_pc = "wait_and_dequeue"
    /\ IF heap # {}
       THEN /\ heap' = heap \ {Peek(heap)}
            /\ IF Peek(heap).id \in ReportPanics
               THEN /\ inj_msg' = NoMsg
                    /\ inj_pc' = "panicked"
                    /\ NoSend
               ELSE /\ inj_msg' = [Peek(heap) EXCEPT !.queued_at = 0]
                    /\ inj_pc' = "window"
                    /\ Send(<<InjectResult(Peek(heap).id, "Injecting")>>)
       ELSE /\ inj_pc' = "notified"
            /\ NoSend
            /\ UNCHANGED <<heap, inj_msg>>
    /\ NoLine
    /\ UNCHANGED <<seen_ids, last_cleanup, notify, flag_vars, sent, pty_open,
                   conn_vars>>

\* notified.await completes by consuming the permit
InjNotified ==
    /\ NoLine
    /\ inj_pc = "notified"
    /\ notify
    /\ notify' = FALSE
    /\ inj_pc' = "wait_and_dequeue"
    /\ NoSend
    /\ UNCHANGED <<heap, seen_ids, last_cleanup, flag_vars, inj_msg, sent,
                   pty_open, conn_vars>>

\* a poll loop that ends only when check_idle() holds
InjWindowUnbounded ==
    /\ NoLine
    /\ inj_pc = "window"
    /\ CheckIdleNow
    /\ inj_pc' = "send_body"
    /\ NoSend
    /\ UNCHANGED <<queue_vars, flag_vars, inj_msg, sent, pty_open, conn_vars>>

\* inject_message: the poll loop ends, because check_idle() held or because
\* the 10 s window elapsed
InjWindow ==
    /\ NoLine
    /\ inj_pc = "window"
    /\ \E elapsed \in BOOLEAN : elapsed \/ CheckIdleNow
    /\ inj_pc' = "send_body"
    /\ NoSend
    /\ UNCHANGED <<queue_vars, flag_vars, inj_msg, sent, pty_open, conn_vars>>

\* pty_tx.send(..) returned Ok
PtySend(kind) ==
    sent' = Append(sent, [kind |-> kind, suggestion |-> auto_suggestion_visible])

\* run: report the final status and loop
InjFinish(status) ==
    /\ Send(<<InjectResult(inj_msg.id, status)>>)
    /\ inj_msg' = NoMsg
    /\ sent' = <<>>
    /\ inj_pc' = "wait_and_dequeue"

\* an injection that goes on to the Enter key without writing the message
InjSendBodySkipped ==
    /\ NoLine
    /\ inj_pc = "send_body"
    /\ inj_pc' = "settle"
    /\ NoSend
    /\ UNCHANGED <<queue_vars, flag_vars, inj_msg, sent, pty_open, conn_vars>>

\* step 1: the formatted message, no Enter
InjSendBody ==
    /\ NoLine
    /\ inj_pc = "send_body"
    /\ IF pty_open
       THEN /\ PtySend("body")
            /\ inj_pc' = "settle"
            /\ NoSend
            /\ UNCHANGED inj_msg
       ELSE InjFinish("Failed")
    /\ UNCHANGED <<queue_vars, flag_vars, pty_open, conn_vars>>

\* an injection that does not look at the result of sending the Enter key
InjSendEnterUnchecked ==
    /\ NoLine
    /\ inj_pc = "settle"
    /\ IF pty_open THEN PtySend("enter") ELSE UNCHANGED sent
    /\ is_idle' = FALSE
    /\ inj_pc' = "report_delivered"
    /\ NoSend
    /\ UNCHANGED <<queue_vars, auto_suggestion_visible, silence_ms, inj_msg,
                   pty_open, conn_vars>>

\* step 3: the Enter key; is_idle is cleared
InjSendEnter ==
    /\ NoLine
    /\ inj_pc = "settle"
    /\ IF pty_open
       THEN /\ PtySend("enter")
            /\ is_idle' = FALSE
            /\ inj_pc' = "report_delivered"
            /\ NoSend
            /\ UNCHANGED inj_msg
       ELSE /\ InjFinish("Failed")
            /\ UNCHANGED is_idle
    /\ UNCHANGED <<queue_vars, auto_suggestion_visible, silence_ms, pty_open,
                   conn_vars>>

\* a run that takes the delivery for a failed verification
InjReportDeliveredUnverified ==
    /\ NoLine
    /\ inj_pc = "report_delivered"
    /\ inj_pc' = "wait_and_dequeue"
    /\ inj_msg' = NoMsg
    /\ sent' = <<>>
    /\ IF inj_msg.retries < max_retries
       THEN /\ heap' = {Renumber(m) : m \in heap} \cup
                       {[inj_msg EXCEPT !.retries = @ + 1,
                                        !.queued_at = InstantNow]}
            /\ notify' = TRUE
            /\ NoSend
       ELSE /\ Send(<<VerificationFailed(inj_msg.id)>>)
            /\ UNCHANGED <<heap, notify>>
    /\ UNCHANGED <<seen_ids, last_cleanup, flag_vars, pty_open, conn_vars>>

\* run, the Ok(true) arm
InjReportDelivered ==
    /\ NoLine
    /\ inj_pc = "report_delivered"
    /\ InjFinish("Delivered")
    /\ UNCHANGED <<queue_vars, flag_vars, pty_open, conn_vars>>

\* run's call of inject_message seen from run: the call returns one of the
\* values of Result<bool>; the Err arm reports Failed at once
InjAttempt(result) ==
    /\ NoLine
    /\ inj_pc = "window"
    /\ CASE result = "Ok(true)" ->
              inj_pc' = "report_delivered" /\ NoSend /\ UNCHANGED <<inj_msg, sent>>
         [] result = "Ok(false)" ->
              inj_pc' = "report_unverified" /\ NoSend /\ UNCHANGED <<inj_msg, sent>>
         [] result = "Err" -> InjFinish("Failed")
    /\ UNCHANGED <<queue_vars, flag_vars, pty_open, conn_vars>>

\* a run that retries whatever the count
InjReportUnverifiedUnbounded ==
    /\ NoLine
    /\ inj_pc = "report_unverified"
    /\ inj_pc' = "retry_delay"
    /\ NoSend
    /\ UNCHANGED <<queue_vars, flag_vars, inj_msg, sent, pty_open, conn_vars>>

\* run, the Ok(false) arm: below max_retries sleep retry_delay_ms and then
\* retry, otherwise report Failed and drop the message
InjReportUnverified ==
    /\ NoLine
    /\ inj_pc = "report_unverified"
    /\ IF inj_msg.retries < max_retries
       THEN /\ inj_pc' = "retry_delay"
            /\ NoSend
            /\ UNCHANGED <<inj_msg, sent>>
       ELSE /\ Send(<<VerificationFailed(inj_msg.id)>>)
            /\ inj_msg' = NoMsg
            /\ sent' = <<>>
            /\ inj_pc' = "wait_and_dequeue"
    /\ UNCHANGED <<queue_vars, flag_vars, pty_open, conn_vars>>

\* run, the Ok(false) arm after the sleep: self.queue.retry(msg), and loop
InjRetry ==
    /\ NoLine
    /\ inj_pc = "retry_delay"
    /\ heap' = {Renumber(m) : m \in heap} \cup
               {[inj_msg EXCEPT !.retries = @ + 1, !.queued_at = InstantNow]}
    /\ notify' = TRUE
    /\ inj_msg' = NoMsg
    /\ sent' = <<>>
    /\ inj_pc' = "wait_and_dequeue"
    /\ NoSend
    /\ UNCHANGED <<seen_ids, last_cleanup, flag_vars, pty_open, conn_vars>>

\* run with inject_message's result left open
InjLoop ==
    \/ InjDequeue
    \/ InjNotified
    \/ \E result \in {"Ok(true)", "Ok(false)", "Err"} : InjAttempt(result)
    \/ InjReportDelivered
    \/ InjReportUnverified
    \/ InjRetry

\* a run that reports the outcome and forgets that it did
InjInjectAgain ==
    /\ NoLine
    /\ inj_pc = "window"
    /\ Send(<<InjectResult(inj_msg.id, IF pty_open THEN "Delivered" ELSE "Failed")>>)
    /\ UNCHANGED <<queue_vars, flag_vars, inj_vars, pty_open, conn_vars>>

\* inject_message from its start to run's final report as one step, for the
\* runs that do not look at the PTY: Ok(true) when both sends succeed, Err
\* when the channel is closed
InjInject ==
    /\ NoLine
    /\ inj_pc = "window"
    /\ InjFinish(IF pty_open THEN "Delivered" ELSE "Failed")
    /\ is_idle' = (is_idle /\ ~pty_open)
    /\ UNCHANGED <<queue_vars, auto_suggestion_visible, silence_ms, pty_open,
                   conn_vars>>

\* -------------------------------------------------- supervisor, environment
\* a PTY output chunk: record_output(text), then update_from_parse(result)
PtyOutput(kind, parse_idle) ==
    /\ NoLine
    /\ IF kind = "suggestion"
       THEN /\ auto_suggestion_visible' = TRUE
            /\ is_idle' = (is_idle \/ parse_idle)
            /\ UNCHANGED silence_ms
       ELSE /\ auto_suggestion_visible' = FALSE
            /\ silence_ms' = 0
            /\ is_idle' = ((is_idle /\ kind = "echo") \/ parse_idle)
    /\ NoSend
    /\ UNCHANGED <<queue_vars, inj_vars, pty_open, conn_vars>>

\* the receiving half of the PTY channel is dropped
PtyClose ==
    /\ NoLine
    /\ pty_open
    /\ pty_open' = FALSE
    /\ NoSend
    /\ UNCHANGED <<queue_vars, flag_vars, inj_vars, conn_vars>>

Older(age, limit) == IF age < limit THEN age + 1 ELSE age

\* the dedup clock advances: seen_ids entries and last_cleanup grow older
Tick ==
    /\ NoLine
    /\ seen_ids' = [i \in AllIds |-> IF seen_ids[i] = NotSeen THEN NotSeen
                                  ELSE Older(seen_ids[i], seen_id_ttl)]
    /\ last_cleanup' = Older(last_cleanup, cleanup_interval + 1)
    /\ NoSend
    /\ UNCHANGED <<heap, notify, flag_vars, inj_vars, pty_open, conn_vars>>

\* the PTY stays silent: the time since the last output grows
Quiet ==
    /\ NoLine
    /\ silence_ms < idle_timeout_ms
    /\ silence_ms' = Older(silence_ms, idle_timeout_ms)
    /\ NoSend
    /\ UNCHANGED <<queue_vars, is_idle, auto_suggestion_visible, inj_vars,
                   pty_open, conn_vars>>

\* ------------------------------------------- the queue's methods, directly
\* enqueue(QueuedMessage::new(..)) as one call
QEnqueue(id, priority) ==
    /\ NoLine
    /\ \E dup \in BOOLEAN :
          /\ EnqueueSeen(id, dup)
          /\ IF dup
             THEN NoSend /\ UNCHANGED <<heap, notify>>
             ELSE \E ok \in BOOLEAN :
                     EnqueueQueue({Renumber(m) : m \in heap},
                                  QueuedMessage_new(id, priority), ok)
    /\ UNCHANGED <<flag_vars, inj_vars, pty_open, conn_vars>>

\* dequeue(): the caller holds what it returned, None on an empty queue
QDequeue ==
    /\ NoLine
    /\ IF heap = {}
       THEN inj_msg' = NoMsg /\ UNCHANGED heap
       ELSE /\ inj_msg' = [Peek(heap) EXCEPT !.queued_at = 0]
            /\ heap' = heap \ {Peek(heap)}
    /\ NoSend
    /\ UNCHANGED <<seen_ids, last_cleanup, notify, flag_vars, inj_pc, sent,
                   pty_open, conn_vars>>

\* a retry that puts the message back as it was handed in
QRetryUncounted ==
    /\ NoLine
    /\ inj_msg # NoMsg
    /\ inj_msg.retries < max_retries
    /\ heap' = {Renumber(m) : m \in heap} \cup
               {[inj_msg EXCEPT !.queued_at = InstantNow]}
    /\ notify' = TRUE
    /\ inj_msg' = NoMsg
    /\ NoSend
    /\ UNCHANGED <<seen_ids, last_cleanup, flag_vars, inj_pc, sent, pty_open,
                   conn_vars>>

\* retry(msg) with the message the caller holds, as run calls it: only
\* while retries < max_retries
QRetry ==
    /\ NoLine
    /\ inj_msg # NoMsg
    /\ inj_msg.retries < max_retries
    /\ heap' = {Renumber(m) : m \in heap} \cup
               {[inj_msg EXCEPT !.retries = @ + 1, !.queued_at = InstantNow]}
    /\ notify' = TRUE
    /\ inj_msg' = NoMsg
    /\ NoSend
    /\ UNCHANGED <<seen_ids, last_cleanup, flag_vars, inj_pc, sent, pty_open,
                   conn_vars>>

\* mark_delivered(id)
QMarkDelivered(id) ==
    /\ NoLine
    /\ contains_key(seen_ids, id)
    /\ seen_ids' = mark_delivered(seen_ids, id)
    /\ NoSend
    /\ UNCHANGED <<heap, last_cleanup, notify, flag_vars, inj_vars, pty_open,
                   conn_vars>>

\* wait_and_dequeue called by a task of its own: the notified future is
\* made, then under the queue lock a message is popped and returned, or the
\* queue is empty and the task awaits the notification (InjNotified)
WaitCheck ==
    /\ NoLine
    /\ inj_pc = "wait_and_dequeue"
    /\ IF heap # {}
       THEN /\ heap' = heap \ {Peek(heap)}
            /\ inj_msg' = [Peek(heap) EXCEPT !.queued_at = 0]
            /\ inj_pc' = "returned"
       ELSE /\ inj_pc' = "notified"
            /\ UNCHANGED <<heap, inj_msg>>
    /\ NoSend
    /\ UNCHANGED <<seen_ids, last_cleanup, notify, flag_vars, sent, pty_open,
                   conn_vars>>

\* the task calls wait_and_dequeue again; the message it got stays with its
\* caller, which may retry it
WaitCall ==
    /\ NoLine
    /\ inj_pc = "returned"
    /\ inj_pc' = "wait_and_dequeue"
    /\ NoSend
    /\ UNCHANGED <<queue_vars, flag_vars, inj_msg, sent, pty_open, conn_vars>>

\* ------------------------------------------- PTY input: channels and writer
ChunkLens == 1..MaxChunkLen
NewChunk(src, len) == [n |-> chunks + 1, src |-> src, len |-> len]

\* the stdin thread read len bytes and sent them to stdin_tx
StdinRead(len) ==
    /\ chunks < MaxChunks
    /\ Len(stdin_rx) < ChanCap
    /\ stdin_rx' = Append(stdin_rx, NewChunk("stdin", len))
    /\ chunks' = chunks + 1
    /\ UNCHANGED <<core_vars, sup_vars, call_vars, loop_vars, sup_hold, inject_rx,
                   input_rx, running, writer_pc, writer, master, arrival,
                   failed>>

\* pty_tx.send(..) by a connection's SendEnter
PtyTxSend(src, len) ==
    /\ chunks < MaxChunks
    /\ Len(inject_rx) < ChanCap
    /\ inject_rx' = Append(inject_rx, NewChunk(src, len))
    /\ chunks' = chunks + 1
    /\ UNCHANGED <<core_vars, sup_vars, call_vars, loop_vars, sup_hold, stdin_rx,
                   input_rx, running, writer_pc, writer, master, arrival,
                   failed>>

\* inject_message's two sends to pty_tx: the formatted message when nothing
\* has been sent for the message in hand, then, after the 50 ms sleep, the
\* carriage return, with which the injection is complete
InjPtySend(len) ==
    /\ chunks < MaxChunks
    /\ Len(inject_rx) < ChanCap
    /\ IF sent = <<>>
       THEN /\ inject_rx' = Append(inject_rx, NewChunk("body", len))
            /\ PtySend("body")
       ELSE /\ len = 1
            /\ inject_rx' = Append(inject_rx, NewChunk("enter", 1))
            /\ sent' = <<>>
    /\ chunks' = chunks + 1
    /\ wrote' = <<>>
    /\ read' = <<>>
    /\ UNCHANGED <<queue_vars, chan_vars, flag_vars, inj_pc, inj_msg, pty_open,
                   conn_vars, sup_vars, call_vars, loop_vars, sup_hold, stdin_rx,
                   input_rx, running, writer_pc, writer, master, arrival,
                   failed>>

\* the select loop takes a chunk from stdin_rx
SupRecvStdin ==
    /\ sup_pc = "loop"
    /\ sup_hold = NoChunk
    /\ stdin_rx # <<>>
    /\ sup_hold' = Head(stdin_rx)
    /\ stdin_rx' = Tail(stdin_rx)
    /\ UNCHANGED <<core_vars, sup_vars, call_vars, loop_vars, inject_rx, input_rx,
                   running, writer_pc, writer, master, chunks, arrival, failed>>

\* the select loop takes a chunk from inject_rx
SupRecvInject ==
    /\ sup_pc = "loop"
    /\ sup_hold = NoChunk
    /\ inject_rx # <<>>
    /\ sup_hold' = Head(inject_rx)
    /\ inject_rx' = Tail(inject_rx)
    /\ UNCHANGED <<core_vars, sup_vars, call_vars, loop_vars, stdin_rx, input_rx,
                   running, writer_pc, writer, master, chunks, arrival, failed>>

\* the loop itself has bytes to send: the cursor-position reply, the MCP
\* approval, the auto-Enter
SupOwn(src, len) ==
    /\ sup_pc = "loop"
    /\ sup_hold = NoChunk
    /\ chunks < MaxChunks
    /\ sup_hold' = NewChunk(src, len)
    /\ chunks' = chunks + 1
    /\ UNCHANGED <<core_vars, sup_vars, call_vars, loop_vars, stdin_rx, inject_rx,
                   input_rx, running, writer_pc, writer, master, arrival,
                   failed>>

\* async_pty.send(data) completes: the chunk enters the writer's channel, or
\* the send fails because the writer thread is gone and the chunk is dropped
SupSend ==
    /\ sup_hold # NoChunk
    /\ IF writer_pc = "exited"
       THEN UNCHANGED <<input_rx, arrival>>
       ELSE /\ Len(input_rx) < ChanCap
            /\ input_rx' = Append(input_rx, sup_hold)
            /\ arrival' = Append(arrival, sup_hold)
    /\ sup_hold' = NoChunk
    /\ UNCHANGED <<core_vars, sup_vars, call_vars, loop_vars, stdin_rx, inject_rx,
                   running, writer_pc, writer, master, chunks, failed>>

\* writer_thread: blocking_recv returned a chunk; the thread ends when the
\* running flag is down
WriterRecv ==
    /\ writer_pc = "recv"
    /\ input_rx # <<>>
    /\ input_rx' = Tail(input_rx)
    /\ IF running
       THEN /\ writer_pc' = "write"
            /\ writer' = [chunk |-> Head(input_rx), written |-> 0]
       ELSE /\ writer_pc' = "exited"
            /\ UNCHANGED writer
    /\ UNCHANGED <<core_vars, sup_vars, call_vars, loop_vars, sup_hold, stdin_rx,
                   inject_rx, running, master, chunks, arrival, failed>>

\* the bytes of chunk c from offset a + 1 to offset b, as written
Bytes(c, a, b) ==
    [k \in 1..(b - a) |-> [n |-> c.n, src |-> c.src, len |-> c.len,
                           byte |-> a + k]]

\* a writer that takes a short write for the whole chunk
WriterWriteOnce(n) ==
    /\ writer_pc = "write"
    /\ n \in 0..(writer.chunk.len - writer.written)
    /\ master' = master \o Bytes(writer.chunk, writer.written, writer.written + n)
    /\ IF n = 0
       THEN UNCHANGED <<writer, writer_pc>>
       ELSE /\ writer' = [chunk |-> NoChunk, written |-> 0]
            /\ writer_pc' = "recv"
    /\ UNCHANGED <<core_vars, sup_vars, call_vars, loop_vars, sup_hold, stdin_rx,
                   inject_rx, input_rx, running, chunks, arrival, failed>>

\* write(fd, &data[written..]) returned Ok(n), 0 < n <= the bytes left, or
\* EAGAIN (n = 0: the thread sleeps and tries again)
WriterWrite(n) ==
    /\ writer_pc = "write"
    /\ n \in 0..(writer.chunk.len - writer.written)
    /\ master' = master \o Bytes(writer.chunk, writer.written, writer.written + n)
    /\ IF writer.written + n = writer.chunk.len
       THEN /\ writer' = [chunk |-> NoChunk, written |-> 0]
            /\ writer_pc' = "recv"
       ELSE /\ writer' = [writer EXCEPT !.written = @ + n]
            /\ UNCHANGED writer_pc
    /\ UNCHANGED <<core_vars, sup_vars, call_vars, loop_vars, sup_hold, stdin_rx,
                   inject_rx, input_rx, running, chunks, arrival, failed>>

\* write returned another error: it is logged, the rest of the chunk is
\* given up and the thread goes back to blocking_recv
WriterError ==
    /\ writer_pc = "write"
    /\ failed' = failed \cup {writer.chunk.n}
    /\ writer' = [chunk |-> NoChunk, written |-> 0]
    /\ writer_pc' = "recv"
    /\ UNCHANGED <<core_vars, sup_vars, call_vars, loop_vars, sup_hold, stdin_rx,
                   inject_rx, input_rx, running, master, chunks, arrival>>

\* the reader thread saw EOF or EIO: the child is gone
ChildExit ==
    /\ running
    /\ running' = FALSE
    /\ UNCHANGED <<core_vars, sup_vars, call_vars, loop_vars, sup_hold, stdin_rx,
                   inject_rx, input_rx, writer_pc, writer, master, chunks,
                   arrival, failed>>

\* ------------------------------------- the reader thread and main's loop
\* reader_thread: read returned Ok(n) with n > 0 and the chunk went into
\* output_tx; the thread reads only while the running flag is up (ChildExit
\* is its EOF or EIO)
ReaderRead(text) ==
    /\ running
    /\ reads < MaxReads
    /\ Len(output_rx) < ChanCap
    /\ output_rx' = Append(output_rx, text)
    /\ reads' = reads + 1
    /\ UNCHANGED <<core_vars, sup_vars, writer_vars, call_vars, stdout,
                   mcp_approved, mcp_detection_buffer, mcp_partial_match_since,
                   approvals, auto_enter_timeout_ms, auto_enter_retry_count,
                   last_auto_enter_time, last_tracked_injection_ms,
                   editor_mode_buffer, enters, sent_at>>

\* a detector that approves and does not set the one-shot flag
McpDetectUnflagged(approved, buffer, since, text, timed_out) ==
    LET pushed == buffer \o text
        index == ByteLen(pushed) - McpKeep
        floor_char_boundary ==
            CHOOSE i \in 0..index :
                /\ is_char_boundary(pushed, i)
                /\ \A j \in (i + 1)..index : ~is_char_boundary(pushed, j)
        kept == IF ByteLen(pushed) > McpLimit
                THEN SliceFrom(pushed, floor_char_boundary).str
                ELSE pushed
        clean_buffer == MainStripAnsi(kept)
        has_header ==
            \E k \in 1..(Len(clean_buffer) - 1) :
                /\ clean_buffer[k] = "MCP Server "
                /\ clean_buffer[k + 1] = "Approval Required"
        has_approve_option ==
            \E k \in 1..Len(clean_buffer) : clean_buffer[k] = "[a]"
        full_match == has_header /\ has_approve_option
        partial == has_header \/ has_approve_option
        timeout_approval == partial /\ since = "Some" /\ timed_out
    IN  IF approved
        THEN [approved |-> TRUE, buffer |-> buffer, since |-> since,
              send |-> FALSE]
        ELSE IF full_match \/ timeout_approval
        THEN [approved |-> FALSE, buffer |-> <<>>, since |-> "None",
              send |-> TRUE]
        ELSE [approved |-> FALSE, buffer |-> kept,
              since |-> IF partial THEN "Some" ELSE "None", send |-> FALSE]

\* the MCP approval detector of the PTY output branch, on the chunk text:
\* the flag, the buffer and the timer as it leaves them, and whether it
\* sends the approval byte. The header is the two pieces "MCP Server " and
\* "Approval Required" side by side, the approve option the piece "[a]";
\* the buffer is cut to at most McpKeep bytes, on a character boundary,
\* when it is longer than McpLimit; timed_out is
\* since.elapsed() >= MCP_APPROVAL_TIMEOUT
McpDetect(approved, buffer, since, text, timed_out) ==
    LET pushed == buffer \o text
        index == ByteLen(pushed) - McpKeep
        floor_char_boundary ==
            CHOOSE i \in 0..index :
                /\ is_char_boundary(pushed, i)
                /\ \A j \in (i + 1)..index : ~is_char_boundary(pushed, j)
        kept == IF ByteLen(pushed) > McpLimit
                THEN SliceFrom(pushed, floor_char_boundary).str
                ELSE pushed
        clean_buffer == MainStripAnsi(kept)
        has_header ==
            \E k \in 1..(Len(clean_buffer) - 1) :
                /\ clean_buffer[k] = "MCP Server "
                /\ clean_buffer[k + 1] = "Approval Required"
        has_approve_option ==
            \E k \in 1..Len(clean_buffer) : clean_buffer[k] = "[a]"
        full_match == has_header /\ has_approve_option
        partial == has_header \/ has_approve_option
        timeout_approval == partial /\ since = "Some" /\ timed_out
    IN  IF approved
        THEN [approved |-> TRUE, buffer |-> buffer, since |-> since,
              send |-> FALSE]
        ELSE IF full_match \/ timeout_approval
        THEN [approved |-> TRUE, buffer |-> <<>>, since |-> "None",
              send |-> TRUE]
        ELSE [approved |-> FALSE, buffer |-> kept,
              since |-> IF partial THEN "Some" ELSE "None", send |-> FALSE]

\* the PTY output branch of main's loop, from async_pty.recv() to the
\* is_running check that ends the round: the MCP detector, the editor-mode
\* buffer, the reset of the auto-Enter count on output that is not a relay
\* echo and is longer than MeaningfulLen bytes, the copy to stdout, the
\* parser and the injector's flags; None from recv() when the reader thread
\* is gone and its channel empty. parse_idle is the parser's verdict
\* (is_idle or ready_signal). The cursor-position reply is SupOwn's.
SupOutput(timed_out, parse_idle) ==
    /\ sup_pc = "loop"
    /\ sup_hold = NoChunk
    /\ output_rx # <<>> \/ ~running
    /\ IF output_rx = <<>>
       THEN /\ sup_pc' = "cleanup"
            /\ UNCHANGED <<flag_vars, loop_vars>>
       ELSE LET text == Head(output_rx)
                mcp == McpDetect(mcp_approved, mcp_detection_buffer,
                                 mcp_partial_match_since, text, timed_out)
                editor == editor_mode_buffer \o text
                index == ByteLen(editor) - EditorKeep
                floor_char_boundary ==
                    CHOOSE i \in 0..index :
                        /\ is_char_boundary(editor, i)
                        /\ \A j \in (i + 1)..index :
                              ~is_char_boundary(editor, j)
                clean_text == MainStripAnsi(text)
                meaningful == /\ ~is_relay_echo(clean_text)
                              /\ ByteLen(clean_text) > MeaningfulLen
            IN  /\ output_rx' = Tail(output_rx)
                /\ mcp_approved' = mcp.approved
                /\ mcp_detection_buffer' = mcp.buffer
                /\ mcp_partial_match_since' = mcp.since
                /\ approvals' =
                      IF mcp.send /\ writer_pc # "exited"
                      THEN Min(approvals + 1, 2) ELSE approvals
                /\ editor_mode_buffer' =
                      IF ByteLen(editor) > EditorLimit
                      THEN SliceFrom(editor, floor_char_boundary).str
                      ELSE editor
                /\ auto_enter_retry_count' =
                      IF meaningful THEN 0 ELSE auto_enter_retry_count
                /\ enters' =
                      IF meaningful /\ auto_enter_retry_count > 0
                      THEN 0 ELSE enters
                /\ stdout' = stdout + 1
                /\ IF is_auto_suggestion(text)
                   THEN /\ auto_suggestion_visible' = TRUE
                        /\ is_idle' = (is_idle \/ parse_idle)
                        /\ UNCHANGED silence_ms
                   ELSE /\ auto_suggestion_visible' = FALSE
                        /\ silence_ms' = 0
                        /\ is_idle' = ((is_idle /\ is_relay_echo(text))
                                       \/ parse_idle)
                /\ sup_pc' = IF running THEN "loop" ELSE "cleanup"
                /\ UNCHANGED <<reads, auto_enter_timeout_ms,
                               last_auto_enter_time,
                               last_tracked_injection_ms, sent_at>>
    /\ NoSend
    /\ wrote' = <<>>
    /\ read' = <<>>
    /\ UNCHANGED <<queue_vars, inj_vars, pty_open, conn_vars, shutdown_rx,
                   writer_vars, call_vars>>

\* is_in_editor_mode on text kept piece by piece: "INSERT" is the mode line
\* "-- INSERT --", "UI" one of the glyphs of the CLI's own status bar, "(END)"
\* the pager's prompt; only the last EditorLook bytes are looked at
is_in_editor_mode(recent_output) ==
    LET clean == MainStripAnsi(recent_output)
        index == ByteLen(clean) - EditorLook
        start == CHOOSE i \in 0..index :
                     /\ is_char_boundary(clean, i)
                     /\ \A j \in (i + 1)..index : ~is_char_boundary(clean, j)
        last_output == IF ByteLen(clean) > EditorLook
                       THEN SliceFrom(clean, start).str ELSE clean
        contains(piece) == \E k \in 1..Len(last_output) : last_output[k] = piece
        has_claude_ui == contains("UI")
        pos == CHOOSE k \in 1..Len(last_output) :
                   /\ last_output[k] = "INSERT"
                   /\ \A l \in (k + 1)..Len(last_output) :
                         last_output[l] # "INSERT"
        trimmed_is_empty ==
            \A l \in (pos + 1)..Len(last_output) : last_output[l] \in {" ", "NL"}
    IN  IF has_claude_ui /\ contains("INSERT") THEN FALSE
        ELSE IF contains("INSERT") /\ trimmed_is_empty THEN TRUE
        ELSE contains("(END)")

NoReading == [silence |-> 0, elapsed |-> FALSE]

\* a limit that is never reached
MaxRetriesNever(count) == FALSE

\* auto_enter_retry_count >= MAX_AUTO_ENTER_RETRIES
MaxRetriesReached(count) == count >= MAX_AUTO_ENTER_RETRIES

\* the auto-Enter tick of main's loop, with the is_running test that follows
\* every round the tick does not leave by `continue`. silence is
\* injector.silence_ms(), since_injection injector.ms_since_injection(),
\* elapsed whether there is a last_auto_enter_time and it is
\* AUTO_ENTER_COOLDOWN old
AutoEnterTick(silence, since_injection, elapsed) ==
    /\ sup_pc = "loop"
    /\ sup_hold = NoChunk
    /\ silence_ms = Min(silence, idle_timeout_ms)
    /\ last_auto_enter_time = "None" => ~elapsed
    /\ IF auto_enter_timeout_ms = 0
       THEN UNCHANGED <<sup_pc, loop_vars>>
       ELSE LET is_idle_now == check_idle(auto_suggestion_visible, is_idle,
                                          silence, idle_timeout_ms)
                had_recent_injection ==
                    since_injection > 0 /\ since_injection <= RecentInjectionMs
                new_injection ==
                    /\ since_injection > 0
                    /\ since_injection < NEW_INJECTION_WINDOW_MS
                    /\ \/ last_tracked_injection_ms = 0
                       \/ since_injection < last_tracked_injection_ms
                count == IF new_injection THEN 0 ELSE auto_enter_retry_count
                sent_so_far == IF new_injection THEN 0 ELSE enters
                cooldown_ok == last_auto_enter_time = "None" \/ elapsed
                in_editor == is_in_editor_mode(editor_mode_buffer)
                backoff_multiplier ==
                    CASE count = 0 -> 10 [] count = 1 -> 15 [] count = 2 -> 25
                      [] count = 3 -> 40 [] OTHER -> 60
                required_silence_ms ==
                    (auto_enter_timeout_ms * backoff_multiplier) \div 10
                send == /\ is_idle_now
                        /\ silence > required_silence_ms
                        /\ had_recent_injection
                        /\ cooldown_ok
            IN  /\ last_tracked_injection_ms' = since_injection
                /\ IF MaxRetriesReached(count)
                   THEN /\ auto_enter_retry_count' =
                              IF count = MAX_AUTO_ENTER_RETRIES
                              THEN count + 1 ELSE count
                        /\ enters' = sent_so_far
                        /\ sent_at' = NoReading
                        /\ UNCHANGED <<sup_pc, last_auto_enter_time>>
                   ELSE IF in_editor
                   THEN /\ auto_enter_retry_count' = count
                        /\ enters' = sent_so_far
                        /\ sent_at' = NoReading
                        /\ UNCHANGED <<sup_pc, last_auto_enter_time>>
                   ELSE /\ IF send /\ writer_pc # "exited"
                           THEN /\ last_auto_enter_time' = "Some"
                                /\ auto_enter_retry_count' = count + 1
                                /\ enters' = sent_so_far + 1
                                /\ sent_at' = [silence |-> silence,
                                               elapsed |-> elapsed]
                           ELSE /\ auto_enter_retry_count' = count
                                /\ enters' = sent_so_far
                                /\ sent_at' = NoReading
                                /\ UNCHANGED last_auto_enter_time
                        /\ sup_pc' = IF running THEN "loop" ELSE "cleanup"
                /\ UNCHANGED <<output_rx, reads, stdout, mcp_approved,
                               mcp_detection_buffer, mcp_partial_match_since,
                               approvals, auto_enter_timeout_ms,
                               editor_mode_buffer>>
    /\ NoSend
    /\ wrote' = <<>>
    /\ read' = <<>>
    /\ UNCHANGED <<queue_vars, flag_vars, inj_vars, pty_open, conn_vars,
                   shutdown_rx, writer_vars, call_vars>>

\* ------------------------------------------------------- the output parser
\* The parser's text is kept piece by piece: "OPEN" is `->relay:Bob <<<`,
\* "CLOSE" is `>>>`, "LINE" is `->relay:Bob hi`, "READY" is `->pty:ready`,
\* "NL" the line feed, " " the space, "b" any other character. No piece is a
\* spawn or release command, and the parser is built by OutputParser::new,
\* without an outbox, so parse_commands goes straight to the fenced and the
\* single-line patterns.
\* fenced_pattern: from an OPEN to the first CLOSE after it, match after match.
\* relay_pattern, tried when nothing fenced matched: a line whose first piece
\* after spaces and `>` is a LINE or an OPEN, taken to the end of the line; a
\* body that starts with `<<<` is skipped.
parse_commands(search_text) ==
    LET trim(s) ==
            LET keep == {k \in 1..Len(s) : s[k] \notin {" ", "NL"}}
            IN  IF keep = {} THEN <<>>
                ELSE SubSeq(s, CHOOSE k \in keep : \A l \in keep : k <= l,
                               CHOOSE k \in keep : \A l \in keep : k >= l)
        First(s, pieces) ==
            LET at == {k \in 1..Len(s) : s[k] \in pieces}
            IN  IF at = {} THEN 0 ELSE CHOOSE k \in at : \A l \in at : k <= l
        RECURSIVE fenced(_)
        fenced(s) ==
            LET i == First(s, {"OPEN"})
                j == IF i = 0 THEN 0 ELSE First(Drop(s, i), {"CLOSE"})
            IN  IF i = 0 \/ j = 0 THEN <<>>
                ELSE <<[kind |-> "fenced",
                        body |-> trim(SubSeq(s, i + 1, i + j - 1))]>>
                     \o fenced(Drop(s, i + j))
        RECURSIVE single(_)
        single(s) ==
            IF s = <<>> THEN <<>>
            ELSE LET nl == First(s, {"NL"})
                     line == IF nl = 0 THEN s ELSE SubSeq(s, 1, nl - 1)
                     rest == IF nl = 0 THEN <<>> ELSE Drop(s, nl)
                     k == First(line, {"OPEN", "LINE", "b", "READY"})
                 IN  (IF k # 0 /\ line[k] = "LINE"
                      THEN <<[kind |-> "single",
                              body |-> trim(Drop(line, k - 1))]>>
                      ELSE <<>>) \o single(rest)
    IN  IF fenced(search_text) # <<>> THEN fenced(search_text)
        ELSE single(search_text)

\* OutputParser::process on the parser self; the slice
\* &self.buffer[self.last_parsed_pos..] panics past the end of the buffer
\* or inside a character
process(self, output) ==
    LET clean == ParserStripAnsi(output)
        buffer == self.buffer \o clean
        search_text == SliceFrom(buffer, self.last_parsed_pos)
        commands == parse_commands(search_text.str)
        ready_signal == \E k \in 1..Len(buffer) : buffer[k] = "READY"
    IN  IF search_text.panic
        THEN [self |-> [self EXCEPT !.buffer = buffer, !.panicked = TRUE],
              commands |-> <<>>, ready_signal |-> FALSE]
        ELSE [self |-> [self EXCEPT
                          !.buffer = SelectSeq(buffer, LAMBDA p : p # "READY"),
                          !.last_parsed_pos =
                              IF commands # <<>> THEN ByteLen(buffer)
                              ELSE self.last_parsed_pos],
              commands |-> commands, ready_signal |-> ready_signal]

\* parser.process(output) on a parser; fed and emitted keep what text was
\* fed and how many fenced commands came out, cut whether the buffer was
\* ever cleared or cut
ParserProcess(output) ==
    /\ arg # NoCall
    /\ arg.fn = "OutputParser"
    /\ ~arg.panicked
    /\ arg.calls < MaxCalls
    /\ LET result == process(arg, output)
           n == Len(SelectSeq(result.commands, LAMBDA c : c.kind = "fenced"))
       IN  /\ arg' = [result.self EXCEPT
                        !.calls = arg.calls + 1,
                        !.fed = arg.fed \o ParserStripAnsi(output),
                        !.emitted = arg.emitted + n]
           /\ ret' = [commands |-> result.commands,
                      ready_signal |-> result.ready_signal]
    /\ UNCHANGED <<core_vars, sup_vars, writer_vars, loop_vars>>

\* parser.clear()
ParserClear ==
    /\ arg # NoCall
    /\ arg.fn = "OutputParser"
    /\ ~arg.panicked
    /\ arg.calls < MaxCalls
    /\ arg' = [arg EXCEPT !.buffer = <<>>, !.last_parsed_pos = 0,
                          !.calls = arg.calls + 1, !.cut = TRUE]
    /\ ret' = NoCall
    /\ UNCHANGED <<core_vars, sup_vars, writer_vars, loop_vars>>

\* parser.truncate_buffer(max_size)
ParserTruncate(size) ==
    /\ arg # NoCall
    /\ arg.fn = "OutputParser"
    /\ ~arg.panicked
    /\ arg.calls < MaxCalls
    /\ LET start == ByteLen(arg.buffer) - size
           kept == SliceFrom(arg.buffer, start)
       IN  arg' = IF ByteLen(arg.buffer) <= size
                  THEN [arg EXCEPT !.calls = arg.calls + 1]
                  ELSE IF kept.panic
                  THEN [arg EXCEPT !.calls = arg.calls + 1, !.panicked = TRUE]
                  ELSE [arg EXCEPT !.buffer = kept.str, !.last_parsed_pos = 0,
                                   !.calls = arg.calls + 1, !.cut = TRUE]
    /\ ret' = NoCall
    /\ UNCHANGED <<core_vars, sup_vars, writer_vars, loop_vars>>

\* ------------------------------------------------------- pure functions
ApplyFormat ==
    /\ arg # NoCall
    /\ arg.fn = "format_for_injection"
    /\ ret = NoCall
    /\ ret' = format_for_injection(arg.id, arg.from, arg.body, arg.retries)
    /\ UNCHANGED <<core_vars, sup_vars, writer_vars, loop_vars, arg>>

ApplyIdle ==
    /\ arg # NoCall
    /\ arg.fn = "check_idle"
    /\ ret = NoCall
    /\ ret' = [value |-> check_idle(arg.auto_suggestion_visible, arg.is_idle,
                                    saturating_sub(arg.now, arg.last_output_ms),
                                    arg.idle_timeout_ms)]
    /\ UNCHANGED <<core_vars, sup_vars, writer_vars, loop_vars, arg>>

\* strip_ansi applied to a text, and again to what it returned
ApplyStrip ==
    /\ arg # NoCall
    /\ arg.fn \in {"parser::strip_ansi", "main::strip_ansi"}
    /\ ret = NoCall
    /\ ret' = [once |-> strip_ansi(arg.fn, arg.text), passes |-> 1,
               twice |-> <<>>]
    /\ UNCHANGED <<core_vars, sup_vars, writer_vars, loop_vars, arg>>

ApplyStripAgain ==
    /\ arg # NoCall
    /\ arg.fn \in {"parser::strip_ansi", "main::strip_ansi"}
    /\ ret # NoCall
    /\ ret.passes = 1
    /\ ret' = [ret EXCEPT !.passes = 2, !.twice = strip_ansi(arg.fn, ret.once)]
    /\ UNCHANGED <<core_vars, sup_vars, writer_vars, loop_vars, arg>>

ApplyRecord ==
    /\ arg # NoCall
    /\ arg.fn = "record_output"
    /\ ret = NoCall
    /\ ret' = record_output(arg.self, arg.output, arg.now)
    /\ UNCHANGED <<core_vars, sup_vars, writer_vars, loop_vars, arg>>

ApplyParse ==
    /\ arg # NoCall
    /\ arg.fn = "update_from_parse"
    /\ ret = NoCall
    /\ ret' = [is_idle |-> update_from_parse(arg.is_idle, arg.result)]
    /\ UNCHANGED <<core_vars, sup_vars, writer_vars, loop_vars, arg>>

\* ------------------------------------------------------------ specification
Base(pc) ==
    /\ heap = {}
    /\ seen_ids = [i \in AllIds |-> NotSeen]
    /\ last_cleanup = 0
    /\ notify = FALSE
    /\ rx = [c \in Conns |-> <<>>]
    /\ lagged = [c \in Conns |-> FALSE]
    /\ inj_pc = "wait_and_dequeue"
    /\ inj_msg = NoMsg
    /\ is_idle = FALSE
    /\ auto_suggestion_visible = FALSE
    /\ silence_ms = 0
    /\ pty_open = TRUE
    /\ conn_pc = [c \in Conns |-> pc]
    /\ conn_msg = [c \in Conns |-> NoMsg]
    /\ pending_ids = [c \in Conns |-> {}]
    /\ injects = 0
    /\ bcast = <<>>
    /\ hist = [i \in AllIds |-> <<>>]
    /\ out = [c \in Conns |-> [i \in AllIds |-> <<>>]]
    /\ sent = <<>>
    /\ wrote = <<>>
    /\ read = <<>>
    /\ rejected = FALSE
    /\ shutdown_rx = 0
    /\ sup_pc = "loop"
    /\ sup_hold = NoChunk
    /\ stdin_rx = <<>>
    /\ inject_rx = <<>>
    /\ input_rx = <<>>
    /\ running = TRUE
    /\ writer_pc = "recv"
    /\ writer = [chunk |-> NoChunk, written |-> 0]
    /\ master = <<>>
    /\ chunks = 0
    /\ arrival = <<>>
    /\ failed = {}

\* main's locals before the loop, and the reader thread's channel; timeout
\* is --auto-enter-timeout
MainLocals(timeout) ==
    /\ output_rx = <<>>
    /\ reads = 0
    /\ stdout = 0
    /\ mcp_approved = FALSE
    /\ mcp_detection_buffer = <<>>
    /\ mcp_partial_match_since = "None"
    /\ approvals = 0
    /\ auto_enter_timeout_ms = timeout
    /\ auto_enter_retry_count = 0
    /\ last_auto_enter_time = "None"
    /\ last_tracked_injection_ms = 0
    /\ editor_mode_buffer = <<>>
    /\ enters = 0
    /\ sent_at = NoReading

\* no call of a pure function in progress
Start(pc) == Base(pc) /\ MainLocals(0) /\ arg = NoCall /\ ret = NoCall

\* a call about to be made with the arguments a, nothing else running
StartCall(a) == Base("closed") /\ MainLocals(0) /\ arg = a /\ ret = NoCall

\* every connection accepted and subscribed
Init == Start("select")

\* no connection
InitQueue == Start("closed")

\* the injector task, inject_message step by step
InjNext ==
    \/ InjDequeue
    \/ InjNotified
    \/ InjWindow
    \/ InjSendBody
    \/ InjSendEnter
    \/ InjReportDelivered

\* the injector task, inject_message as one step
InjRun ==
    \/ InjDequeue
    \/ InjNotified
    \/ InjInject

\* two connections submitting one id up to MaxInjects times, the dedup clock
\* standing still (every acceptance falls inside one TTL window)
Next ==
    \/ \E c \in Conns, id \in OneId :
          injects < MaxInjects /\ ConnInject(c, id, 0, injects + 1)
    \/ \E c \in Conns : ConnEnqueue(c)
    \/ \E c \in Conns : ConnRecv(c)
    \/ InjRun
    \/ PtyClose

Spec == Init /\ [][Next]_vars

\* one connection submitting up to MaxInjects times, a second one subscribed
\* and not reading, the dedup clock running
SpecTtl ==
    /\ Init
    /\ [][\/ \E c \in OneConn, id \in Ids :
                injects < MaxInjects /\ ConnInject(c, id, 0, injects + 1)
          \/ \E c \in OneConn : ConnEnqueue(c)
          \/ \E c \in OneConn : ConnRecv(c)
          \/ InjRun
          \/ PtyClose
          \/ Tick]_vars

\* the queue's methods called in any order
SpecQueue ==
    /\ InitQueue
    /\ [][\/ \E id \in Ids, p \in Priorities : QEnqueue(id, p)
          \/ QDequeue
          \/ QRetry
          \/ \E id \in Ids : QMarkDelivered(id)
          \/ Tick]_vars

\* one task in wait_and_dequeue, again and again, while enqueue, retry and
\* mark_delivered are called from outside; the task is scheduled fairly
SpecWait ==
    /\ InitQueue
    /\ [][\/ \E id \in Ids, p \in Priorities : QEnqueue(id, p)
          \/ QRetry
          \/ \E id \in Ids : QMarkDelivered(id)
          \/ WaitCheck
          \/ InjNotified
          \/ WaitCall]_vars
    /\ WF_vars(WaitCheck)
    /\ WF_vars(InjNotified)

\* one connection, the injector and the PTY output the supervisor records
NextGate ==
    \/ \E c \in OneConn, id \in OneId :
          injects < MaxInjects /\ ConnInject(c, id, 0, injects + 1)
    \/ \E c \in OneConn : ConnEnqueue(c)
    \/ \E c \in OneConn : ConnRecv(c)
    \/ InjNext
    \/ \E kind \in {"suggestion", "echo", "other"}, parse_idle \in BOOLEAN :
          PtyOutput(kind, parse_idle)
    \/ Quiet
    \/ PtyClose

SpecGate == Init /\ [][NextGate]_vars

\* the same run with the injector scheduled fairly
SpecWindow == Init /\ [][NextGate]_vars /\ WF_vars(InjNext)

\* run's handling of every result inject_message's type allows: one
\* connection submitting up to MaxInjects times, the injector scheduled fairly
SpecRetry ==
    /\ Init
    /\ [][\/ \E c \in OneConn, id \in Ids :
                injects < MaxInjects /\ ConnInject(c, id, 0, injects + 1)
          \/ \E c \in OneConn : ConnEnqueue(c)
          \/ \E c \in OneConn : ConnRecv(c)
          \/ InjLoop]_vars
    /\ WF_vars(InjLoop)

\* one connection submitting up to MaxInjects times, among the ids one that
\* report_result cannot slice, the injector scheduled fairly
SpecWide ==
    /\ Init
    /\ [][\/ \E c \in OneConn, id \in {1, WideId} :
                injects < MaxInjects /\ ConnInject(c, id, 0, injects + 1)
          \/ \E c \in OneConn : ConnEnqueue(c)
          \/ \E c \in OneConn : ConnRecv(c)
          \/ InjNext
          \/ PtyClose]_vars
    /\ WF_vars(InjNext)

\* the producers of PTY input, the select loop and the writer thread
SpecWriter ==
    /\ InitQueue
    /\ [][\/ \E len \in ChunkLens : StdinRead(len)
          \/ \E len \in ChunkLens : InjPtySend(len)
          \/ PtyTxSend("socket", 1)
          \/ SupRecvStdin
          \/ SupRecvInject
          \/ \E src \in {"cursor_reply", "mcp_approve", "auto_enter"}, len \in ChunkLens :
                SupOwn(src, len)
          \/ SupSend
          \/ WriterRecv
          \/ \E n \in 0..MaxChunkLen : WriterWrite(n)
          \/ WriterError
          \/ ChildExit]_vars

\* one connection sending lines of every kind, a second one subscribed and
\* not reading, the injector and the supervisor's way out
SpecConn ==
    /\ Init
    /\ [][\/ \E c \in OneConn, id \in AllIds :
                Alive /\ injects < MaxInjects /\ ConnInject(c, id, 0, injects + 1)
          \/ \E c \in OneConn : Alive /\ ConnEnqueue(c)
          \/ \E c \in OneConn : Alive /\ ConnRecv(c)
          \/ \E c \in OneConn : Alive /\ ConnInvalidJson(c)
          \/ \E c \in OneConn : Alive /\ ConnBlank(c)
          \/ \E c \in OneConn : Alive /\ ConnInvalidUtf8(c)
          \/ \E c \in OneConn : Alive /\ ConnShutdown(c)
          \/ \E c \in OneConn : Alive /\ ConnShutdownSend(c)
          \/ \E c \in OneConn : Alive /\ ConnShutdownAck(c)
          \/ Alive /\ InjRun
          \/ SupShutdown
          \/ SupExit]_vars

\* format_for_injection called once on each message of FormatArgs
SpecFormat ==
    /\ \E a \in FormatArgs : StartCall(a)
    /\ [][ApplyFormat]_vars

\* check_idle called once in each state of IdleArgs
SpecIdle ==
    /\ \E a \in IdleArgs : StartCall(a)
    /\ [][ApplyIdle]_vars

\* strip_ansi called on each text of StripArgs and on its own output
SpecStrip ==
    /\ \E a \in StripArgs : StartCall(a)
    /\ [][ApplyStrip \/ ApplyStripAgain]_vars

\* record_output and update_from_parse called on each state of the injector's
\* flags and buffer, with each output
SpecRecord ==
    /\ \E a \in RecordArgs : StartCall(a)
    /\ [][ApplyRecord \/ ApplyParse]_vars

\* the reader thread, the PTY output branch and the child's end, on chunks
\* that carry the pieces of the MCP approval prompt; auto-Enter disabled
SpecMcp ==
    /\ InitQueue
    /\ [][\/ \E text \in {<<"MCP Server ">>, <<"Approval Required">>,
                           <<"[a]">>, <<"x", "x">>} : ReaderRead(text)
          \/ \E timed_out \in BOOLEAN, parse_idle \in BOOLEAN :
                SupOutput(timed_out, parse_idle)
          \/ ChildExit]_vars

\* the reader thread, the PTY output branch, the auto-Enter tick and the
\* child's end, with auto-Enter disabled or enabled with AutoEnterTimeout
SpecAutoEnter ==
    /\ Base("closed")
    /\ \E timeout \in {0, AutoEnterTimeout} : MainLocals(timeout)
    /\ arg = NoCall
    /\ ret = NoCall
    /\ [][\/ \E text \in {<<"x", "x">>, <<"(END)">>, <<"INSERT">>,
                           <<"UI">>} : ReaderRead(text)
          \/ \E timed_out \in {FALSE}, parse_idle \in BOOLEAN :
                SupOutput(timed_out, parse_idle)
          \/ \E silence \in 0..(6 * AutoEnterTimeout + 1),
                since_injection \in {0, 1, RecentInjectionMs,
                                     RecentInjectionMs + 1},
                elapsed \in BOOLEAN :
                AutoEnterTick(silence, since_injection, elapsed)
          \/ Quiet
          \/ ChildExit]_vars

\* a parser from OutputParser::new, fed chunk after chunk, cleared and cut;
\* a chunk is one piece, a command with the start of the next one, or a
\* command with the ready signal after it
SpecParser ==
    /\ StartCall([fn |-> "OutputParser", buffer |-> <<>>, last_parsed_pos |-> 0,
                  panicked |-> FALSE, calls |-> 0, fed |-> <<>>,
                  emitted |-> 0, cut |-> FALSE])
    /\ [][\/ \E output \in {<<"OPEN">>, <<"CLOSE">>, <<"LINE">>, <<"NL">>,
                             <<"b">>, <<" ">>, <<"READY">>,
                             <<"LINE", "NL", "OPEN">>,
                             <<"LINE", "NL", "READY", "NL">>,
                             <<"CLOSE", "NL", "READY", "NL">>} :
                ParserProcess(output)
          \/ ParserClear
          \/ ParserTruncate(TruncateSize)]_vars
\* ------------------------------------------------------------------ claims
\* the status for id i is among the events this step broadcast
StatusBroadcast(i, status) ==
    \E k \in 1..Len(bcast) :
        /\ bcast[k].type = "inject_result"
        /\ bcast[k].id = i
        /\ bcast[k].status = status

\* C1: whenever a message with id i is queued, a final status (Delivered or
\* Failed) is eventually broadcast for i, the injector being scheduled
\* fairly.
C1_AcceptedEventuallyFinal ==
    \A i \in AllIds : (\E m \in heap : m.id = i) ~> (StatusBroadcast(i, "Delivered") \/ StatusBroadcast(i, "Failed"))

StatusPrefixes ==
    { <<>>, <<"Queued">>, <<"Queued", "Injecting">>,
      <<"Queued", "Injecting", "Delivered">>,
      <<"Queued", "Injecting", "Failed">>, <<"Queued", "Failed">> }

\* C2, as stated: the statuses broadcast for an id over a message's lifetime
\* are a prefix of [Queued, Injecting, Delivered], [Queued, Injecting, Failed]
\* or [Queued, Failed].
C2_StatusSequence == \A i \in Ids : hist[i] \in StatusPrefixes

\* C2, amended: the same, as long as the id has not been accepted a second
\* time before its final status (one Queued only since the id was idle).
C2_StatusSequenceNoOverlap ==
    \A i \in Ids :
        Cardinality({k \in DOMAIN hist[i] : hist[i][k] = "Queued"}) <= 1
            => hist[i] \in StatusPrefixes

\* a lifetime that ran Queued, Injecting, Failed with no second acceptance
C2_Witness ==
    \E i \in Ids : hist[i] = <<"Queued", "Injecting", "Failed">> /\ ~Live(i)

\* C3: an enqueue that finds its id in the dedup map (after the sweep the
\* call itself may run) leaves the queue as it was, broadcasts nothing, and
\* shows only as the Error response: no status line, the id not tracked.
C3_DuplicateRejected ==
    [][\A c \in Conns, id \in Ids :
          ( /\ ConnInject(c, id, 0, injects + 1)
            /\ seen_ids[id] # NotSeen
            /\ (last_cleanup > cleanup_interval => seen_ids[id] < seen_id_ttl) )
          => /\ heap' = heap
             /\ bcast' = <<>>
             /\ rx' = rx
             /\ out' = out
             /\ conn_pc'[c] = "select"
             /\ id \notin pending_ids'[c]]_vars

\* two Injects of id 1 were read, one is queued and the other was rejected
\* as a duplicate
C3_Witness ==
    /\ injects = 2
    /\ Cardinality(heap) = 1
    /\ hist[1] = <<"Queued">>
    /\ \A c \in Conns : conn_pc[c] = "select"
    /\ \A c \in Conns : pending_ids[c] = {}

\* C4: the queue never holds two messages with the same id (the dedup clock
\* standing still, every acceptance is inside the TTL window).
C4_OneCopyPerId == \A m, n \in heap : m.id = n.id => m = n

\* C5: the queue never holds more than max_size messages.
C5_LengthBounded == Cardinality(heap) <= max_size

\* C6: an enqueue that reaches the capacity check with the queue holding
\* max_size messages leaves the queue as it was, broadcasts exactly
\* Backpressure{queue_length: max_size, accept: false}, which every
\* subscriber's receiver gets, and is answered with Error (no Queued).
C6_CapacityRejected ==
    [][\A c \in Conns :
          (conn_pc[c] = "enq_queue" /\ conn_pc'[c] = "select"
              /\ Cardinality(heap) = max_size)
          => /\ heap' = heap
             /\ bcast' = <<Backpressure(max_size, FALSE)>>
             /\ \A d \in Conns :
                   /\ rx'[d] # <<>>
                   /\ rx'[d][Len(rx'[d])] = Backpressure(max_size, FALSE)
             /\ out' = out
             /\ conn_msg[c].id \notin pending_ids'[c]]_vars

\* a third message was just turned away from a full queue
C6_Witness ==
    /\ bcast = <<Backpressure(max_size, FALSE)>>
    /\ Cardinality(heap) = max_size
    /\ \A m, n \in heap : m.id = n.id => m = n

\* C7: dequeue returns the queued message with the smallest priority, the
\* oldest queued_at among equals, and removes only it; on an empty queue it
\* returns None.
C7_DequeueOrder ==
    [][QDequeue =>
          IF heap = {} THEN inj_msg' = NoMsg /\ heap' = heap
          ELSE \E m \in heap :
                  /\ inj_msg' = [m EXCEPT !.queued_at = 0]
                  /\ heap' = heap \ {m}
                  /\ \A n \in heap :
                        \/ m.priority < n.priority
                        \/ m.priority = n.priority /\ m.queued_at <= n.queued_at]_vars

\* a message of priority -1 was dequeued ahead of an older one of priority 0
C7_Witness ==
    /\ inj_msg # NoMsg
    /\ inj_msg.priority = 0 - 1
    /\ Cardinality(heap) = 1
    /\ \E n \in heap : n.priority = 0 /\ n.queued_at = 1

\* C8: no chunk of an injection (body or Enter) is sent to the PTY channel
\* while auto_suggestion_visible is true.
C8_NoSendWhileSuggestion == \A k \in 1..Len(sent) : ~sent[k].suggestion

\* C9: unless the receiver reported a gap while the id was tracked, the lines
\* a connection writes for an id start with Queued, Queued is not repeated,
\* Injecting comes once and before the final line, and nothing follows
\* Delivered or Failed.
C9_LineOrder ==
    \A c \in Conns, i \in Ids :
        LET s == out[c][i]
        IN  (\A k \in 1..Len(s) : s[k] # "Lagged") =>
            /\ s # <<>> => s[1] = "Queued"
            /\ \A j, k \in 1..Len(s) :
                  j < k => /\ s[k] # "Queued"
                           /\ s[j] \notin {"Delivered", "Failed"}
                           /\ ~(s[j] = "Injecting" /\ s[k] = "Injecting")

\* a connection has written Queued, Injecting, Delivered for its Inject
C9_Witness ==
    \E c \in Conns, i \in Ids :
        /\ out[c][i] = <<"Queued", "Injecting", "Delivered">>
        /\ i \notin pending_ids[c]

\* C10: for an accepted Inject the connection writes one Queued line, the
\* direct response; the broadcast Queued never adds a second.
C10_OneQueuedLine ==
    \A c \in Conns, i \in Ids :
        out[c][i] # <<>> =>
            Cardinality({k \in DOMAIN out[c][i] : out[c][i][k] = "Queued"}) = 1

\* the connection has read its own broadcast Queued (and the Injecting after
\* it) and written the Queued line once
C10_Witness ==
    \E c \in Conns, i \in Ids :
        /\ out[c][i] = <<"Queued", "Injecting">>
        /\ hist[i] = <<"Queued", "Injecting">>
        /\ rx[c] = <<>>
        /\ ~lagged[c]

\* connection c wrote the Delivered line of id i in this step
DeliveredWritten(c, i) ==
    \E k \in 1..Len(wrote) : wrote[k] = StatusLine(c, i, "Delivered")

\* C11, as stated: a step that broadcasts Delivered for an id removes the id
\* from the dedup map, whether or not a connection tracks the id.
C11_DeliveredFreesId ==
    [][\A i \in Ids : StatusBroadcast(i, "Delivered")' => seen_ids'[i] = NotSeen]_vars

\* C11, amended: a step that broadcasts Delivered puts the event into every
\* subscriber's receiver and leaves the dedup map as it is; a connection
\* that writes the Delivered line of an id it tracks removes the id from the
\* map; and an id leaves the map in no other way than that or the sweep of
\* an entry as old as the TTL during an enqueue.
C11_DeliveredFreesIdWhenForwarded ==
    [][\A i \in Ids :
          /\ StatusBroadcast(i, "Delivered")' =>
                /\ seen_ids' = seen_ids
                /\ \A c \in Conns :
                      Subscribed(c) =>
                          /\ rx'[c] # <<>>
                          /\ rx'[c][Len(rx'[c])] = InjectResult(i, "Delivered")
          /\ \A c \in Conns :
                DeliveredWritten(c, i)' =>
                    i \in pending_ids[c] /\ seen_ids'[i] = NotSeen
          /\ (seen_ids[i] # NotSeen /\ seen_ids'[i] = NotSeen) =>
                \/ \E c \in Conns : DeliveredWritten(c, i)'
                \/ seen_ids[i] >= seen_id_ttl /\ injects' # injects]_vars

\* Delivered was just broadcast for an id that no connection tracks, and the
\* id is still in the dedup map
C11_Witness ==
    \E i \in Ids :
        /\ StatusBroadcast(i, "Delivered")
        /\ seen_ids[i] # NotSeen
        /\ \A c \in Conns : i \notin pending_ids[c]

\* C12: Backpressure{accept: true} is broadcast in exactly the steps that
\* bring the queue length down to max_size / 2 after a capacity rejection.
C12_RecoveryOnDrain ==
    [][(\E k \in 1..Len(bcast') :
            bcast'[k].type = "backpressure" /\ bcast'[k].accept) <=>
          /\ rejected
          /\ Cardinality(heap) > max_size \div 2
          /\ Cardinality(heap') = max_size \div 2]_vars

\* the kinds of the chunks sent for the message in hand, in order
SentKinds == [k \in 1..Len(sent) |-> sent[k].kind]

\* C13: the chunks sent for a message are its body and then one Enter key,
\* the Enter key never first and only after the settle point; Delivered is
\* broadcast only by a step that found both already sent.
C13_TwoPhase ==
    /\ [](/\ SentKinds \in {<<>>, <<"body">>, <<"body", "enter">>}
          /\ SentKinds = <<"body">> <=> inj_pc = "settle"
          /\ SentKinds = <<"body", "enter">> <=> inj_pc = "report_delivered")
    /\ [][\A i \in Ids :
            StatusBroadcast(i, "Delivered")' =>
                /\ inj_msg.id = i
                /\ SentKinds = <<"body", "enter">>]_vars

\* both chunks of a message are sent and Delivered is about to be reported
C13_Witness ==
    /\ inj_pc = "report_delivered"
    /\ SentKinds = <<"body", "enter">>
    /\ inj_msg # NoMsg

\* C14: a send (of the body or of the Enter key) that finds the PTY channel
\* closed makes the injector broadcast Failed, with an error text, for the
\* message in hand and nothing else, put nothing back in the queue, and
\* return to wait_and_dequeue.
C14_SendFailureReportsFailed ==
    [][(inj_pc \in {"send_body", "settle"} /\ ~pty_open /\ inj_pc' # inj_pc)
          => /\ bcast' = <<InjectResult(inj_msg.id, "Failed")>>
             /\ bcast'[1].error # "None"
             /\ heap' = heap
             /\ inj_msg' = NoMsg
             /\ inj_pc' = "wait_and_dequeue"]_vars

\* a send found the channel closed: Failed was broadcast for the message and
\* the injector is back at wait_and_dequeue with nothing in hand
C14_Witness ==
    \E i \in Ids :
        /\ bcast = <<InjectResult(i, "Failed")>>
        /\ ~pty_open
        /\ inj_pc = "wait_and_dequeue"
        /\ inj_msg = NoMsg

\* the bytes on the PTY master are those of chunks that entered the writer's
\* channel, chunk after chunk in the order of entry, each chunk's bytes in
\* order from its first, and the chunks of one producer in the order that
\* producer made them
WrittenInArrivalOrder ==
    LET ArrivalPos(n) == CHOOSE k \in 1..Len(arrival) : arrival[k].n = n
    IN
    /\ \A j \in 1..Len(master) : \E k \in 1..Len(arrival) : arrival[k].n = master[j].n
    /\ master # <<>> => master[1].byte = 1
    /\ \A j \in 1..(Len(master) - 1) :
          IF master[j].n = master[j + 1].n
          THEN master[j + 1].byte = master[j].byte + 1
          ELSE /\ master[j + 1].byte = 1
               /\ ArrivalPos(master[j].n) < ArrivalPos(master[j + 1].n)
    /\ \A j, k \in 1..Len(master) :
          (j < k /\ master[j].src = master[k].src) => master[j].n <= master[k].n

\* byte j of the master is the last one written of its chunk
LastOfChunk(j) ==
    IF j < Len(master) THEN master[j].n # master[j + 1].n
    ELSE writer.chunk.n # master[j].n

\* C15, as stated: the bytes are written chunk after chunk in the order the
\* chunks entered the writer's channel, one producer's chunks in their order,
\* and every chunk is written to its last byte before the next one starts.
C15_WriterSerializes ==
    /\ WrittenInArrivalOrder
    /\ \A j \in 1..Len(master) : LastOfChunk(j) => master[j].byte = master[j].len

\* C15, amended: the same, except that a chunk whose write fails with an error
\* other than EAGAIN is left cut short.
C15_WriterSerializesUnlessError ==
    /\ WrittenInArrivalOrder
    /\ \A j \in 1..Len(master) :
          LastOfChunk(j) => master[j].byte = master[j].len \/ master[j].n \in failed

\* four bytes are on the master, the last two of another chunk and another
\* producer than the first, no write has failed and the writer is between
\* chunks
C15_Witness ==
    /\ Len(master) = 4
    /\ master[1].src # master[3].src
    /\ master[2].n # master[3].n
    /\ failed = {}
    /\ writer_pc = "recv"

\* ----------------------------------------------------------------- C16
\* C16: a step in which a connection reads a line that is not a valid
\* request JSON writes exactly one Error line, whose message contains
\* "Invalid JSON", to that connection, leaves the connection in its loop and
\* leaves its pending_ids and the queue as they were
C16_InvalidLineAnswered ==
    [][\A c \in Conns :
          (read' # <<>> /\ read'[1].conn = c /\ read'[1].kind \in {"invalid_json", "invalid_utf8"})
          => /\ Len(wrote') = 1
             /\ wrote'[1].conn = c
             /\ wrote'[1].type = "error"
             /\ \E k \in 1..(Len(wrote'[1].message) - 1) :
                   /\ wrote'[1].message[k] = "Invalid"
                   /\ wrote'[1].message[k + 1] = "JSON"
             /\ conn_pc'[c] = "select"
             /\ pending_ids'[c] = pending_ids[c]
             /\ heap' = heap
             /\ seen_ids' = seen_ids]_vars

\* ----------------------------------------------------------------- C17
\* C17: the step in which an Inject is rejected by enqueue, as a duplicate
\* or for capacity, writes to the connection one Error line whose message
\* contains "rejected" and no Queued line, and leaves the id out of the
\* connection's pending_ids
C17_RejectAnswered ==
    [][\A c \in Conns, id \in AllIds :
          (\/ read' = ReadInject(c, id) /\ conn_pc'[c] = "select"
           \/ /\ conn_pc[c] = "enq_queue"
              /\ conn_msg[c].id = id
              /\ conn_pc'[c] = "select"
              /\ heap' = heap)
          => /\ Len(wrote') = 1
             /\ wrote'[1].conn = c
             /\ wrote'[1].type = "error"
             /\ \E k \in 1..Len(wrote'[1].message) :
                   wrote'[1].message[k] = "rejected"
             /\ out'[c][id] = out[c][id]
             /\ id \notin pending_ids'[c]]_vars

\* an Inject has just been turned away for capacity: the queue is full, the
\* Error line is the line written and the id is not tracked
C17_Witness ==
    /\ rejected
    /\ bcast # <<>>
    /\ bcast[1].type = "backpressure"
    /\ Cardinality(heap) = max_size
    /\ \E id \in AllIds :
          /\ wrote = <<ErrorLine(1, RejectedMessage(id))>>
          /\ id \notin pending_ids[1]
          /\ \A m \in heap : m.id # id

\* ----------------------------------------------------------------- C18
AfterShutdown(c) == conn_pc[c] \in {"shutdown_send", "shutdown_ack", "closed"}

Called(fn) == arg # NoCall /\ arg.fn = fn /\ ret # NoCall

\* C19: format_for_injection returns the escalation prefix for retries (none
\* for 0, "[RETRY] " for 1, "[URGENT - PLEASE ACKNOWLEDGE] " from 2 on)
\* followed by the body itself when the body starts with
\* "Relay message from ", and otherwise by
\* "Relay message from <from> [<first 7 characters of id>]: <body>"
C19_Format ==
    Called("format_for_injection")
    => /\ ~ret.panic
       /\ ret.str =
             (IF arg.retries = 0 THEN <<>>
              ELSE IF arg.retries = 1 THEN <<"[RETRY] ">>
              ELSE <<"[URGENT - PLEASE ACKNOWLEDGE] ">>) \o
             (IF starts_with(arg.body, RelayPrefix)
              THEN arg.body
              ELSE RelayPrefix \o arg.from \o <<" ", "[">> \o
                   SubSeq(arg.id, 1, Min(Len(arg.id), 7)) \o
                   <<"]", ":", " ">> \o arg.body)

\* ----------------------------------------------------------------- C20
\* C20: check_idle returns false whenever auto_suggestion_visible is true,
\* whatever is_idle, last_output_ms, the clock and idle_timeout_ms are; and
\* otherwise it returns is_idle or (silence_ms >= idle_timeout_ms), silence_ms
\* being the time since last_output_ms, 0 when the clock is behind it
C20_CheckIdle ==
    Called("check_idle")
    => LET silence == IF arg.now >= arg.last_output_ms
                      THEN arg.now - arg.last_output_ms ELSE 0
       IN  ret.value = IF arg.auto_suggestion_visible THEN FALSE
                       ELSE arg.is_idle \/ silence >= arg.idle_timeout_ms

\* check_idle has returned false for a state with a suggestion on screen, the
\* idle flag set and a timeout of 0
C20_Witness ==
    /\ Called("check_idle")
    /\ arg.auto_suggestion_visible
    /\ arg.is_idle
    /\ arg.idle_timeout_ms = 0
    /\ ret.value = FALSE

\* ----------------------------------------------------------------- C21
\* C21: for either routine and every text, strip_ansi applied to the output
\* of strip_ansi returns that output unchanged
C21_StripIdempotent ==
    (arg # NoCall /\ arg.fn \in {"parser::strip_ansi", "main::strip_ansi"}
     /\ ret # NoCall /\ ret.passes = 2)
    => ret.twice = ret.once

\* ----------------------------------------------------------------- C22
\* C22: a waiter suspended on the notification while the queue is non-empty
\* has a notification stored for it, and whenever the queue is non-empty
\* while the waiter is inside wait_and_dequeue the waiter eventually returns
\* a message
C22_NoLostWakeup ==
    /\ []((inj_pc = "notified" /\ heap # {}) => notify)
    /\ (heap # {} /\ inj_pc \in {"wait_and_dequeue", "notified"})
          ~> (inj_pc = "returned")

\* the waiter found the queue empty and is suspended, and a message has been
\* pushed since: the notification came between the check and the wake-up
C22_Witness ==
    /\ inj_pc = "notified"
    /\ heap # {}
    /\ notify

\* ----------------------------------------------------------------- C23
\* C23: an enqueue passes the duplicate check only by inserting the id into
\* the dedup map; Queued is broadcast for an id only by the later step of
\* such an enqueue, the one that pushes the message; and Injecting is
\* broadcast for an id only by a step that takes a message of that id out of
\* the queue, Queued having been broadcast for the id before
C23_QueuedThenInjecting ==
    [][/\ \A c \in Conns :
             (conn_pc[c] # "enq_queue" /\ conn_pc'[c] = "enq_queue")
             => /\ seen_ids'[conn_msg'[c].id] = 0
                /\ conn_msg'[c].id \in pending_ids'[c]
       /\ \A i \in AllIds :
             /\ StatusBroadcast(i, "Queued")'
                => \E c \in Conns :
                      /\ conn_pc[c] = "enq_queue"
                      /\ conn_msg[c].id = i
                      /\ conn_pc'[c] = "select"
                      /\ \E m \in heap' : m.id = i
             /\ StatusBroadcast(i, "Injecting")'
                => /\ \E m \in heap : m.id = i /\ m \notin heap'
                   /\ \E k \in 1..Len(hist[i]) : hist[i][k] = "Queued"
                   /\ ~StatusBroadcast(i, "Queued")']_vars

\* Injecting has just been broadcast for a message, after its Queued, while
\* the other connection is inside enqueue between the insertion of its id
\* and the push
C23_Witness ==
    /\ StatusBroadcast(1, "Injecting")
    /\ hist[1] = <<"Queued", "Injecting">>
    /\ \E c \in Conns : conn_pc[c] = "enq_queue"

C25_RetryBounded ==
    /\ [](\A m \in heap \cup {inj_msg} : m.retries <= max_retries)
    /\ [][/\ (inj_pc = "report_unverified" /\ inj_pc' # inj_pc)
             => IF inj_msg.retries < max_retries
                THEN /\ inj_pc' = "retry_delay"
                     /\ inj_msg' = inj_msg
                     /\ bcast' = <<>>
                     /\ heap' = heap
                ELSE /\ bcast' = <<VerificationFailed(inj_msg.id)>>
                     /\ inj_msg' = NoMsg
                     /\ heap' = heap
                     /\ inj_pc' = "wait_and_dequeue"
          /\ (inj_pc = "retry_delay" /\ inj_pc' # inj_pc)
             => /\ \E m \in heap' \ {Renumber(n) : n \in heap} :
                      m.id = inj_msg.id /\ m.retries = inj_msg.retries + 1
                /\ bcast' = <<>>
          /\ \A i \in Ids :
                (\E k \in 1..Len(bcast') : bcast'[k] = VerificationFailed(i))
                => (inj_pc = "report_unverified" /\ inj_msg.id = i
                    /\ inj_msg.retries = max_retries)]_vars
    /\ \A i \in Ids :
          (inj_pc = "report_unverified" /\ inj_msg.id = i) ~> (StatusBroadcast(i, "Delivered") \/ StatusBroadcast(i, "Failed"))

\* the last permitted attempt has failed verification too and Failed has
\* been broadcast for the message, with nothing of it left in the queue
C25_Witness ==
    /\ bcast = <<VerificationFailed(1)>>
    /\ hist[1] = <<"Queued", "Injecting", "Injecting", "Failed">>
    /\ inj_msg = NoMsg
    /\ \A m \in heap : m.id # 1

ParseOnlySets ==
    Called("update_from_parse")
    => ret.is_idle = (arg.is_idle \/ arg.result.is_idle
                      \/ arg.result.ready_signal)

C30_RecentBounded ==
    Called("record_output")
    => LET pushed == arg.self.recent_output \o arg.output
           kept == ret.recent_output
       IN  /\ ~ret.panic
           /\ ByteLen(kept) <= RecentLimit
           /\ IF is_auto_suggestion(arg.output)
              THEN kept = arg.self.recent_output
              ELSE /\ Len(kept) <= Len(pushed)
                   /\ kept = Drop(pushed, Len(pushed) - Len(kept))
                   /\ \/ kept = pushed
                      \/ ByteLen(Drop(pushed, Len(pushed) - Len(kept) - 1))
                            > RecentLimit

\* the limit fell inside a two-byte character: the cut was made after it and
\* the buffer holds one byte less than the limit
C30_Witness ==
    /\ Called("record_output")
    /\ ByteLen(arg.self.recent_output \o arg.output) > RecentLimit
    /\ ~is_char_boundary(arg.self.recent_output \o arg.output,
                         ByteLen(arg.self.recent_output \o arg.output)
                            - RecentLimit)
    /\ ByteLen(ret.recent_output) = RecentLimit - 1
    /\ ~ret.panic

\* ----------------------------------------------------------------- C29
\* C29: a connection forwards an event only for an id in its pending_ids; in
\* forwarding a final status it removes the id from pending_ids, calls
\* mark_delivered for Delivered and leaves the dedup map alone for Failed,
\* and goes back to its select loop with the other pending ids kept; in
\* forwarding Injecting it keeps the id
C29_ForwardFinal ==
    [][\A c \in Conns, i \in AllIds :
          /\ \A status \in {"Queued", "Injecting", "Delivered", "Failed"} :
                (/\ rx[c] # <<>>
                 /\ rx'[c] = Tail(rx[c])
                 /\ wrote' = <<StatusLine(c, i, status)>>)
                => /\ i \in pending_ids[c]
                   /\ Head(rx[c]) = InjectResult(i, status)
                   /\ status # "Queued"
                   /\ conn_pc'[c] = "select"
                   /\ pending_ids'[c] =
                         IF status \in {"Delivered", "Failed"}
                         THEN pending_ids[c] \ {i} ELSE pending_ids[c]
                   /\ seen_ids' =
                         IF status = "Delivered"
                         THEN [seen_ids EXCEPT ![i] = NotSeen] ELSE seen_ids
          /\ (rx[c] # <<>> /\ rx'[c] = Tail(rx[c]) /\ ~lagged[c]
              /\ (Head(rx[c]).type # "inject_result"
                  \/ Head(rx[c]).id \notin pending_ids[c]))
             => wrote' = <<>> /\ out'[c] = out[c]]_vars

\* after forwarding a Delivered the connection has taken a second Inject of
\* the id, answered Queued and forwarded its Injecting; the other connection
\* has written nothing, so the first delivery was forwarded, and the id
\* released, by this one
C29_Witness ==
    \E c \in Conns :
        /\ conn_pc[c] = "select"
        /\ injects >= 2
        /\ hist[1] = <<"Queued", "Injecting">>
        /\ out[c][1] = <<"Queued", "Injecting">>
        /\ wrote = <<StatusLine(c, 1, "Injecting")>>
        /\ 1 \in pending_ids[c]
        /\ \A d \in Conns \ {c} : out[d][1] = <<>> /\ pending_ids[d] = {}

\* ----------------------------------------------------------------- C36
\* C36: an enqueue turned away for capacity (the step that broadcasts
\* Backpressure{accept: false}) records no id in the dedup map: every id
\* that was not seen before the call is not seen after it
C36_CapacityRejectNotRecorded ==
    [][(\E k \in 1..Len(bcast') :
            bcast'[k].type = "backpressure" /\ ~bcast'[k].accept)
       => \A i \in AllIds : seen_ids[i] = NotSeen => seen_ids'[i] = NotSeen]_vars

\* ----------------------------------------------------------------- C34
\* C34: a connection forwards Delivered for an id (and with it calls
\* mark_delivered) only when no message of that id is waiting in the queue
\* or is held inside an enqueue
C34_NoStaleDelivered ==
    [][\A c \in Conns, i \in AllIds :
          wrote' = <<StatusLine(c, i, "Delivered")>>
          => /\ \A m \in heap : m.id # i
             /\ \A d \in Conns : conn_msg[d] = NoMsg \/ conn_msg[d].id # i]_vars

\* ----------------------------------------------------------------- C35
\* C35: a connection that tracks an id for an Inject it had accepted, and
\* reads a second Inject of that id which is rejected as a duplicate, still
\* tracks the id afterwards
C35_RejectKeepsTracking ==
    [][\A c \in Conns, i \in AllIds :
          (/\ i \in pending_ids[c]
           /\ read' = ReadInject(c, i)
           /\ conn_pc'[c] = "select")
          => i \in pending_ids'[c]]_vars

\* ----------------------------------------------------------------- C40
\* C40: whatever the id of the message it handles, the injector task is not
\* ended by a fault in a string operation on the id
C40_InjectorNeverFaults == inj_pc # "panicked"

\* ----------------------------------------------------------------- C37
\* C37: in the order in which chunks enter the writer's channel, the
\* carriage return of an injection comes right after its body: no chunk of
\* another producer lies between a body and the first carriage return of the
\* injector after it
C37_BodyEnterAdjacent ==
    \A k \in 1..Len(arrival), j \in 1..Len(arrival) :
        (/\ k < j
         /\ arrival[k].src = "body"
         /\ arrival[j].src = "enter"
         /\ \A l \in (k + 1)..(j - 1) : arrival[l].src # "enter")
        => j = k + 1

\* ----------------------------------------------------------------- C31
\* C31: over a run of the supervisor the approval byte is handed to the PTY
\* at most once; it is sent only by the step that sets the one-shot flag,
\* and once the flag is set the detection buffer (empty from then on) and
\* the partial-match timer are not touched again
C31_ApprovalOneShot ==
    /\ [](approvals <= 1)
    /\ [](mcp_approved => mcp_detection_buffer = <<>>)
    /\ [][/\ approvals' # approvals => ~mcp_approved /\ mcp_approved'
          /\ mcp_approved
             => /\ mcp_approved'
                /\ UNCHANGED <<mcp_detection_buffer, mcp_partial_match_since,
                               approvals>>]_vars

\* the approval was sent, and every chunk read since has been processed
C31_Witness ==
    /\ mcp_approved
    /\ approvals = 1
    /\ reads = MaxReads
    /\ stdout = MaxReads

\* C32: an auto-Enter carriage return is sent only on a tick at which
\* auto-Enter is enabled, check_idle() is true, the silence exceeds the
\* backoff-scaled timeout of the current attempt count, an injection happened
\* within the last 60 s, the previous auto-Enter is absent or 5 s old, the
\* output does not look like editor mode and the attempt count is below 5;
\* the count rises by one with the send, and no more than 5 are sent between
\* two resets of the count
C32_AutoEnterGuarded ==
    /\ [](enters <= 5)
    /\ [][(enters' # enters /\ enters' # 0) =>
            LET attempt == auto_enter_retry_count' - 1
                scaled == CASE attempt = 0 -> 10 [] attempt = 1 -> 15
                            [] attempt = 2 -> 25 [] attempt = 3 -> 40
                            [] OTHER -> 60
            IN  /\ auto_enter_timeout_ms > 0
                /\ check_idle(auto_suggestion_visible, is_idle,
                              sent_at'.silence, idle_timeout_ms)
                /\ 10 * sent_at'.silence > auto_enter_timeout_ms * scaled
                /\ last_tracked_injection_ms' \in 1..60000
                /\ last_auto_enter_time = "None" \/ sent_at'.elapsed
                /\ ~is_in_editor_mode(editor_mode_buffer)
                /\ attempt \in 0..4
                /\ attempt \in {0, auto_enter_retry_count}
                /\ enters' = attempt + 1]_vars

C32_Witness ==
    /\ enters = 5
    /\ auto_enter_retry_count = 5
    /\ sent_at.silence = 6 * AutoEnterTimeout + 1
    /\ stdout > 0

\* C38: once main's loop has ended because the child exited, every chunk
\* the reader thread read and queued has been copied to stdout and parsed
C38_NoOutputLost == sup_pc = "cleanup" => (stdout = reads /\ output_rx = <<>>)

\* C33: a fenced command whose text arrives split over successive process
\* calls is emitted exactly once: after every call the number of fenced
\* commands emitted equals the number of fenced commands in the text fed
\* (a buffer never cleared or cut, and text without the ready signal, whose
\* removal is C39's subject)
C33_FencedEmittedOnce ==
    (/\ arg.fn = "OutputParser"
     /\ ~arg.panicked
     /\ ~arg.cut
     /\ \A k \in 1..Len(arg.fed) : arg.fed[k] # "READY") =>
        arg.emitted = Len(SelectSeq(parse_commands(arg.fed),
                                    LAMBDA c : c.kind = "fenced"))

\* C39: after every call of process, clear or truncate_buffer,
\* last_parsed_pos is at most the buffer's length and on a character boundary
C39_ParsedPosInBuffer ==
    arg.fn = "OutputParser" =>
        /\ arg.last_parsed_pos <= ByteLen(arg.buffer)
        /\ is_char_boundary(arg.buffer, arg.last_parsed_pos)

====
